---- MODULE Spec2Model ----
(***************************************************************************)
(* Model of the OGCoin command-line tools: the validators                  *)
(* (tools/validators.py), the bulk payment processor                       *)
(* (tools/bulk_payments.py), the transparency reporter                     *)
(* (tools/transparency_reporter.py), the airdrop tools, Config and         *)
(* StellarManager, the fund fee (tools/open_build_fund.py) and the         *)
(* save-file endpoint of the ForgeWeb admin server (admin/file-api.py).    *)
(*                                                                         *)
(* Python strings are sequences of one-character strings, so that strip(), *)
(* Decimal() and the address check work on the characters.  None is the    *)
(* value None below, a str is Str(s).                                      *)
(***************************************************************************)
EXTENDS Integers, Sequences, FiniteSets, TLC

VARIABLES
    \* validate_amount(amount)
    amount, amount_result,
    \* validate_bulk_payment_file(file_path)
    vfile, summary,
    \* process_bulk_payments(file_path, source_secret, batch_size,
    \*                       delay_between_batches, memo, dry_run)
    file, secret_ok, batch_size, delay_between_batches, dry_run,
    pc, validation, batches, i, batch_results,
    successful_payments, failed_payments,
    submitted, events, results,
    \* generate_monthly_report(year, month) / generate_previous_month_report()
    now, report,
    \* the airdrop monitor: the Google sheet, processed_submissions.txt,
    \* airdrop_recipients.txt, the ledger and the payments made
    sheet_configured, sheet, processed_addresses, recipients, funded,
    trustlines, paid, cycles,
    \* switch_network, Config and StellarManager: the .env file, the
    \* environment of the process, the last switch, the Config and the
    \* StellarManager built from it and the result of its last operation
    dotenv, environ, last_switch, config, manager, op_result,
    \* bulk_command after process_bulk_payments returned: what it printed
    \* and whether the report was written
    command,
    \* get_account_transactions(account_id, limit, start_time, end_time):
    \* the page Horizon returns, the time range and the returned list
    page, start_time, end_time, all_transactions,
    \* one submission with what the ledger answers for it, and what
    \* process_airdrop_submission and process_submission return for it
    submission, handler_result, sheets_result,
    \* POST /api/save-file: the JSON body of the request and what
    \* handle_save_file answered and wrote
    save_request, save_result,
    \* Config.save and a new process: the Config that is saved, the .env
    \* file it wrote and the Config constructed from that file
    saved_config, written_env, new_config,
    \* calculate_transaction_with_fund_fee(amount, fee_rate) and
    \* calculate_fund_contribution(transaction_amount)
    fund_amount, fee_rate, fee_result, contribution_result

vars == <<amount, amount_result, vfile, summary,
          file, secret_ok, batch_size, delay_between_batches, dry_run,
          pc, validation, batches, i, batch_results,
          successful_payments, failed_payments, submitted, events, results,
          now, report,
          sheet_configured, sheet, processed_addresses, recipients, funded,
          trustlines, paid, cycles,
          dotenv, environ, last_switch, config, manager, op_result,
          command, page, start_time, end_time, all_transactions,
          submission, handler_result, sheets_result,
          save_request, save_result,
          saved_config, written_env, new_config,
          fund_amount, fee_rate, fee_result, contribution_result>>

amountVars == <<amount, amount_result>>
fileVars   == <<vfile, summary>>
bulkVars   == <<file, secret_ok, batch_size, delay_between_batches, dry_run,
                pc, validation, batches, i, batch_results,
                successful_payments, failed_payments, submitted, events,
                results>>
reportVars == <<now, report>>
coreVars   == <<amountVars, fileVars, bulkVars, reportVars>>
airdropVars == <<sheet_configured, sheet, processed_addresses, recipients,
                 funded, trustlines, paid, cycles>>
configVars == <<dotenv, environ, last_switch, config, manager, op_result>>
txVars     == <<page, start_time, end_time, all_transactions>>
submissionVars == <<submission, handler_result, sheets_result>>
toolVars   == <<airdropVars, configVars, command, txVars, submissionVars>>
webVars    == <<save_request, save_result>>
saveVars   == <<saved_config, written_env, new_config>>
fundVars   == <<fund_amount, fee_rate, fee_result, contribution_result>>
extraVars  == <<webVars, saveVars, fundVars>>

(***************************************************************************)
(* Bounds of the model                                                     *)
(***************************************************************************)
\* longest amount string enumerated over AmountAlphabet
MaxAmountLen == 3
\* longest file (in data lines) enumerated over all row kinds
MaxRows == 2
\* most batches a modelled run goes through
MaxBatches == 4
\* most rows the Google sheet gets
MaxSheet == 3
\* most monitor cycles of a run
MaxCycles == 3
\* most lines of the .env file
MaxEnvLines == 2
\* most records of a fetched page, and the latest created_at
MaxPage == 3
MaxTime == 3
MaxPathLen == 7
MaxFundDigits == 30

(***************************************************************************)
(* Python values                                                           *)
(***************************************************************************)
None == [t |-> "none", s |-> <<>>]
Str(s) == [t |-> "str", s |-> s]
\* a list value (the rest of an over-long csv line, stored under key None)
List(s) == [t |-> "list", s |-> s]

SetMin(S) == CHOOSE x \in S : \A y \in S : x <= y
SetMax(S) == CHOOSE x \in S : \A y \in S : x >= y

Whitespace == {" "}

\* str.strip()
StripKeeping(s, keep) ==
    IF keep = {} THEN <<>> ELSE SubSeq(s, SetMin(keep), SetMax(keep))

strip(s) == StripKeeping(s, {k \in 1..Len(s) : s[k] \notin Whitespace})

DigitChars == {"0", "1", "2", "3", "4", "5", "6", "7", "8", "9"}

DigitVal(c) ==
    CASE c = "0" -> 0 [] c = "1" -> 1 [] c = "2" -> 2 [] c = "3" -> 3
      [] c = "4" -> 4 [] c = "5" -> 5 [] c = "6" -> 6 [] c = "7" -> 7
      [] c = "8" -> 8 [] c = "9" -> 9

\* str.lower() on the letters the decimal grammar knows
lower(c) ==
    CASE c = "E" -> "e" [] c = "I" -> "i" [] c = "N" -> "n" [] c = "F" -> "f"
      [] c = "T" -> "t" [] c = "Y" -> "y" [] c = "A" -> "a" [] c = "S" -> "s"
      [] OTHER -> c

(***************************************************************************)
(* decimal.Decimal(str): sign, coefficient digits and exponent.            *)
(*   [sign] (digits [. digits] | . digits) [e [sign] digits]               *)
(*   [sign] inf[inity]   |   [sign] [s]nan[digits]                         *)
(* kind "invalid" is the InvalidOperation the constructor raises.          *)
(***************************************************************************)
RECURSIVE DigitsToInt(_)
DigitsToInt(ds) ==
    IF ds = <<>> THEN 0
    ELSE 10 * DigitsToInt(SubSeq(ds, 1, Len(ds) - 1)) + DigitVal(ds[Len(ds)])

AllDigits(s) == \A k \in 1..Len(s) : s[k] \in DigitChars

\* str(int(intpart + fracpart)): the coefficient without leading zeros; nz
\* are the positions of the digits other than 0
CoefficientFrom(ds, nz) ==
    IF nz = {} THEN <<0>>
    ELSE [k \in 1..(Len(ds) - SetMin(nz) + 1) |-> DigitVal(ds[k + SetMin(nz) - 1])]

Coefficient(ds) == CoefficientFrom(ds, {k \in 1..Len(ds) : ds[k] # "0"})

LowerAll(s) == [k \in 1..Len(s) |-> lower(s[k])]

HasSign(t) == Len(t) > 0 /\ t[1] \in {"-", "+"}
SignOf(t) == IF HasSign(t) /\ t[1] = "-" THEN 1 ELSE 0
Unsigned(t) == IF HasSign(t) THEN Tail(t) ELSE t

IsInf(body) == body \in {<<"i", "n", "f">>,
                         <<"i", "n", "f", "i", "n", "i", "t", "y">>}

\* nan with the optional s in front taken off
IsQuietNan(nbody) ==
    /\ Len(nbody) >= 3
    /\ SubSeq(nbody, 1, 3) = <<"n", "a", "n">>
    /\ AllDigits(SubSeq(nbody, 4, Len(nbody)))

IsNan(body) ==
    IsQuietNan(IF Len(body) > 0 /\ body[1] = "s" THEN Tail(body) ELSE body)

\* the text before and after the first e
SplitAt(body, ePos) ==
    IF ePos = {} THEN [mant |-> body, hasExp |-> FALSE, expPart |-> <<>>]
    ELSE [mant    |-> SubSeq(body, 1, SetMin(ePos) - 1),
          hasExp  |-> TRUE,
          expPart |-> SubSeq(body, SetMin(ePos) + 1, Len(body))]

SplitExponent(body) == SplitAt(body, {k \in 1..Len(body) : body[k] = "e"})

\* digits [. digits] with at least one digit; dots are the positions of '.'
MantissaOk(mant, dots) ==
    /\ Cardinality(dots) <= 1
    /\ \A k \in 1..Len(mant) : k \in dots \/ mant[k] \in DigitChars
    /\ \E k \in 1..Len(mant) : mant[k] \in DigitChars

IntPart(mant, dots) ==
    IF dots = {} THEN mant ELSE SubSeq(mant, 1, SetMin(dots) - 1)

FracPart(mant, dots) ==
    IF dots = {} THEN <<>> ELSE SubSeq(mant, SetMin(dots) + 1, Len(mant))

ExpDigits(expPart) ==
    IF Len(expPart) > 0 /\ expPart[1] \in {"-", "+"} THEN Tail(expPart)
    ELSE expPart

SignedExponent(expPart, n) == IF expPart[1] = "-" THEN 0 - n ELSE n

ExponentValue(expPart) == SignedExponent(expPart, DigitsToInt(ExpDigits(expPart)))

InvalidDecimal == [kind |-> "invalid", sign |-> 0, digits |-> <<0>>, exp |-> 0]

Finite(sign, digits, frac, e) ==
    [kind |-> "finite", sign |-> sign, digits |-> Coefficient(digits),
     exp |-> e - Len(frac)]

DecimalNumber(sign, p, dots) ==
    IF /\ MantissaOk(p.mant, dots)
       /\ (p.hasExp => (ExpDigits(p.expPart) # <<>>
                         /\ AllDigits(ExpDigits(p.expPart))))
    THEN Finite(sign, IntPart(p.mant, dots) \o FracPart(p.mant, dots),
                FracPart(p.mant, dots),
                IF p.hasExp THEN ExponentValue(p.expPart) ELSE 0)
    ELSE InvalidDecimal

DecimalSplit(sign, p) ==
    DecimalNumber(sign, p, {k \in 1..Len(p.mant) : p.mant[k] = "."})

DecimalBody(sign, body) ==
    IF IsInf(body)
    THEN [kind |-> "inf", sign |-> sign, digits |-> <<0>>, exp |-> 0]
    ELSE IF IsNan(body)
    THEN [kind |-> "nan", sign |-> sign, digits |-> <<0>>, exp |-> 0]
    ELSE DecimalSplit(sign, SplitExponent(body))

DecimalOfLower(t) == DecimalBody(SignOf(t), Unsigned(t))

Decimal(str) == DecimalOfLower(LowerAll(strip(str)))

IsZero(d) == d.kind = "finite" /\ d.digits = <<0>>

\* Decimal('922337203685.4775807')
MaxAmountDigits == <<9, 2, 2, 3, 3, 7, 2, 0, 3, 6, 8, 5, 4, 7, 7, 5, 8, 0, 7>>
MaxAmountExp == -7

Pad(ds, n) == [k \in 1..n |-> IF k <= Len(ds) THEN ds[k] ELSE 0]

\* pa > pb for digit sequences of one length; diff: where they differ
GreaterAt(pa, pb, diff) == diff # {} /\ pa[SetMin(diff)] > pb[SetMin(diff)]

GreaterDigits(pa, pb) == GreaterAt(pa, pb, {k \in 1..Len(pa) : pa[k] # pb[k]})

Longer(ad, bd) == IF Len(ad) > Len(bd) THEN Len(ad) ELSE Len(bd)

\* a > b for positive finite decimals given as (digits, exp), digits without
\* leading zeros
GreaterPos(ad, ae, bd, be) ==
    IF Len(ad) + ae # Len(bd) + be THEN Len(ad) + ae > Len(bd) + be
    ELSE GreaterDigits(Pad(ad, Longer(ad, bd)), Pad(bd, Longer(ad, bd)))

(***************************************************************************)
(* validate_amount(amount): "True", "False", or the exception that leaves  *)
(* the function ("TypeError": only InvalidOperation and ValueError are     *)
(* caught).                                                                *)
(***************************************************************************)
\* the checks on decimal_amount
check_decimal_amount(d) ==
    IF d.kind = "invalid" THEN "False"
    \* decimal_amount <= 0 raises InvalidOperation for a NaN
    ELSE IF d.kind = "nan" THEN "False"
    ELSE IF d.sign = 1 \/ IsZero(d) THEN "False"
    \* decimal_amount.as_tuple().exponent < -7: the exponent of an infinity
    \* is the string 'F'
    ELSE IF d.kind = "inf" THEN "TypeError"
    ELSE IF d.exp < -7 THEN "False"
    ELSE IF GreaterPos(d.digits, d.exp, MaxAmountDigits, MaxAmountExp)
         THEN "False"
    ELSE "True"

validate_amount(a) ==
    IF a.t # "str" \/ a.s = <<>> THEN "False"
    ELSE check_decimal_amount(Decimal(a.s))

(***************************************************************************)
(* validate_stellar_address, validate_memo, validate_csv_row               *)
(***************************************************************************)
Base32Chars == {"A", "B", "C", "D", "E", "F", "G", "H", "I", "J", "K", "L",
                "M", "N", "O", "P", "Q", "R", "S", "T", "U", "V", "W", "X",
                "Y", "Z", "2", "3", "4", "5", "6", "7"}

AddressLength == 56

validate_stellar_address(address) ==
    IF address.t # "str" \/ address.s = <<>> THEN FALSE
    ELSE IF address.s[1] # "G" \/ Len(address.s) # AddressLength THEN FALSE
    ELSE \A k \in 1..Len(address.s) : address.s[k] \in Base32Chars

\* bytes of one character in UTF-8
Utf8Len(c) == IF c = "é" THEN 2 ELSE 1

RECURSIVE Utf8Bytes(_)
Utf8Bytes(s) == IF s = <<>> THEN 0 ELSE Utf8Len(Head(s)) + Utf8Bytes(Tail(s))

MemoTextLimit == 28

\* validate_memo(memo) with memo_type = 'text'
validate_memo(memo) ==
    IF memo.s = <<>> THEN TRUE ELSE Utf8Bytes(memo.s) <= MemoTextLimit

\* dictionary keys
ADDRESS == Str(<<"a", "d", "d", "r", "e", "s", "s">>)
AMOUNT  == Str(<<"a", "m", "o", "u", "n", "t">>)
MEMO    == Str(<<"m", "e", "m", "o">>)

\* Python truthiness of a str / None / list value
Truthy(v) == v.s # <<>>

\* Decimal('0.0000001')
SmallAmountDigits == <<1>>
SmallAmountExp == -7

AddressErrors(row) ==
    IF ADDRESS \notin DOMAIN row \/ ~Truthy(row[ADDRESS])
    THEN <<"Missing address field">>
    ELSE IF ~validate_stellar_address(row[ADDRESS])
    THEN <<"Invalid Stellar address">>
    ELSE <<>>

\* "Missing", or what validate_amount gives
AmountCheck(row) ==
    IF AMOUNT \notin DOMAIN row \/ ~Truthy(row[AMOUNT]) THEN "Missing"
    ELSE validate_amount(row[AMOUNT])

AmountErrors(amt) ==
    IF amt = "Missing" THEN <<"Missing amount field">>
    ELSE IF amt = "False" THEN <<"Invalid amount">>
    ELSE <<>>

\* Decimal(row['amount']) < Decimal('0.0000001')
IsVerySmall(d) == GreaterPos(SmallAmountDigits, SmallAmountExp, d.digits, d.exp)

MemoErrors(row) ==
    IF MEMO \in DOMAIN row /\ Truthy(row[MEMO]) /\ ~validate_memo(row[MEMO])
    THEN <<"Invalid memo">> ELSE <<>>

RowResult(errs, warn) ==
    [raised |-> "none", valid |-> errs = <<>>, errors |-> errs,
     warnings |-> warn]

RowChecked(row, addrErr, amt) ==
    IF amt = "TypeError"
    THEN [raised |-> "TypeError", valid |-> FALSE, errors |-> addrErr,
          warnings |-> <<>>]
    ELSE RowResult(addrErr \o AmountErrors(amt) \o MemoErrors(row),
                   IF amt = "True" /\ IsVerySmall(Decimal(row[AMOUNT].s))
                   THEN <<"Very small amount">> ELSE <<>>)

\* validate_csv_row(row): raised is the exception that leaves the function
validate_csv_row(row) == RowChecked(row, AddressErrors(row), AmountCheck(row))

(***************************************************************************)
(* CSV files.  A file is [exists, sniffable, header, rows]: header names   *)
(* the first line, rows names each following line; Fieldnames and          *)
(* RowFields give their fields.  sniffable is whether csv.Sniffer finds a  *)
(* delimiter in the first 1024 characters.                                 *)
(***************************************************************************)
Chars(n, c) == [k \in 1..n |-> c]

GoodAddress  == <<"G">> \o Chars(55, "A")
ShortAddress == <<"G", "A", "B">>
LongMemo     == Chars(29, "m")

HeaderNames == {"address,amount", "address,amount,memo",
                "address,amount, memo", "address,memo"}

Fieldnames(h) ==
    CASE h = "address,amount"       -> <<ADDRESS, AMOUNT>>
      [] h = "address,amount,memo"  -> <<ADDRESS, AMOUNT, MEMO>>
      [] h = "address,amount, memo" -> <<ADDRESS, AMOUNT, Str(<<" ">> \o MEMO.s)>>
      [] h = "address,memo"         -> <<ADDRESS, MEMO>>

RowKinds == {"ok", "padded", "short", "long", "blank", "bad_address",
             "no_amount", "zero_amount", "inf_amount", "long_memo"}

RowFields(r) ==
    CASE r = "ok"          -> <<GoodAddress, <<"1">>, <<"h", "i">>>>
      [] r = "padded"      -> <<GoodAddress, <<" ", "2", " ">>, <<" ", "h", "i">>>>
      [] r = "short"       -> <<GoodAddress, <<"1">>>>
      [] r = "long"        -> <<GoodAddress, <<"1">>, <<"h", "i">>, <<"x">>>>
      [] r = "blank"       -> <<>>
      [] r = "bad_address" -> <<ShortAddress, <<"1">>, <<"h", "i">>>>
      [] r = "no_amount"   -> <<GoodAddress, <<>>, <<"h", "i">>>>
      [] r = "zero_amount" -> <<GoodAddress, <<"0">>, <<"h", "i">>>>
      [] r = "inf_amount"  -> <<GoodAddress, <<"I", "n", "f", "i", "n", "i", "t", "y">>,
                                <<"h", "i">>>>
      [] r = "long_memo"   -> <<GoodAddress, <<"1">>, LongMemo>>

\* csv.DictReader: one dict per non-blank line; missing fields are None,
\* surplus fields go to the key None as a list
DictRow(fieldnames, fields) ==
    LET lf   == Len(fieldnames)
        lr   == Len(fields)
        keys == {fieldnames[k] : k \in 1..lf} \cup (IF lf < lr THEN {None} ELSE {})
        \* dict(zip(fieldnames, row)): the last of equal names wins
        pos(key) == SetMax({k \in 1..lf : fieldnames[k] = key})
    IN  [key \in keys |->
            IF key = None /\ None \notin {fieldnames[k] : k \in 1..lf}
            THEN List(SubSeq(fields, lf + 1, lr))
            ELSE IF pos(key) <= lr THEN Str(fields[pos(key)]) ELSE None]

\* the lines DictReader yields (it skips lines without fields)
DataRows(f) == SelectSeq(f.rows, LAMBDA r : RowFields(r) # <<>>)

\* the dict DictReader yields for line r under header h
ReaderRow(h, r) == DictRow(Fieldnames(h), RowFields(r))

\* validate_csv_row on each dict the reader can yield (evaluated once)
RawRowValidation ==
    [h \in HeaderNames |-> [r \in RowKinds |-> validate_csv_row(ReaderRow(h, r))]]

(***************************************************************************)
(* validate_bulk_payment_file(file_path)                                   *)
(***************************************************************************)
EmptySummary ==
    [valid |-> TRUE, total_rows |-> 0, valid_rows |-> 0, invalid_rows |-> 0,
     errors |-> <<>>, warnings |-> <<>>, row_errors |-> <<>>]

\* the loop over the reader: every yielded line is counted, then validated;
\* an exception raised by validate_csv_row ends the loop in the except
\* clause, after the line was counted.  rv[n] is validate_csv_row on line n,
\* which has row number n + 1; stop is the line that raises, if any.
RowsSummary(rv, stop, good, bad) ==
    [valid        |-> stop > Len(rv),
     total_rows   |-> IF stop > Len(rv) THEN Len(rv) ELSE stop,
     valid_rows   |-> Len(good),
     invalid_rows |-> Len(bad),
     errors       |-> IF stop > Len(rv) THEN <<>> ELSE <<"Error reading file">>,
     warnings     |-> SelectSeq([n \in 1..(stop - 1) |-> n],
                                LAMBDA n : rv[n].warnings # <<>>),
     row_errors   |-> [k \in 1..Len(bad) |->
                          [row |-> bad[k] + 1, errors |-> rv[bad[k]].errors]]]

RowsUpTo(rv, stop) ==
    RowsSummary(rv, stop,
                SelectSeq([n \in 1..(stop - 1) |-> n], LAMBDA n : rv[n].valid),
                SelectSeq([n \in 1..(stop - 1) |-> n], LAMBDA n : ~rv[n].valid))

FirstRaising(rv, raising) ==
    IF raising = {} THEN Len(rv) + 1 ELSE SetMin(raising)

RowsValidated(rv) ==
    RowsUpTo(rv, FirstRaising(rv, {n \in 1..Len(rv) : rv[n].raised # "none"}))

ValidateRows(h, rows) ==
    RowsValidated([n \in 1..Len(rows) |-> RawRowValidation[h][rows[n]]])

RequiredColumns == <<ADDRESS, AMOUNT>>

MissingColumns(f) ==
    SelectSeq(RequiredColumns,
              LAMBDA col : col \notin {Fieldnames(f.header)[k] :
                                          k \in 1..Len(Fieldnames(f.header))})

\* the file-level checks after the try block
FileLevelValidation(res) ==
    IF res.total_rows = 0
    THEN [res EXCEPT !.valid = FALSE, !.errors = Append(@, "File is empty")]
    ELSE IF res.invalid_rows > 0
    THEN [res EXCEPT !.valid = FALSE, !.errors = Append(@, "invalid rows found")]
    ELSE res

validate_bulk_payment_file(f) ==
    IF ~f.exists
    THEN [EmptySummary EXCEPT !.valid = FALSE, !.errors = <<"File not found">>]
    ELSE IF ~f.sniffable
    THEN FileLevelValidation(
             [EmptySummary EXCEPT !.valid = FALSE,
                                  !.errors = <<"Error reading file">>])
    ELSE IF MissingColumns(f) # <<>>
    THEN [EmptySummary EXCEPT !.valid = FALSE,
                              !.errors = <<"Missing required columns">>]
    ELSE FileLevelValidation(ValidateRows(f.header, DataRows(f)))

(***************************************************************************)
(* BulkPaymentProcessor.load_csv_file and validate_payments.  A payment    *)
(* record is named by its '_row_number'; cleaned_row gives its fields.     *)
(***************************************************************************)
\* {k.strip(): v.strip() for k, v in row.items() if v.strip()}: raises
\* AttributeError when a value is None or a list
CleanRaises(row) == \E key \in DOMAIN row : row[key].t # "str"

cleaned_row(fieldnames, row) ==
    LET kept == {k \in 1..Len(fieldnames) : strip(row[fieldnames[k]].s) # <<>>}
        keys == {Str(strip(fieldnames[k].s)) : k \in kept}
        \* items come in field order; a later equal key overwrites
        last(key) == SetMax({k \in kept : Str(strip(fieldnames[k].s)) = key})
    IN  [key \in keys |-> Str(strip(row[fieldnames[last(key)]].s))]

\* validate_csv_row on each cleaned record (evaluated once); a line whose
\* cleaning raises has no record
CleanedRowValidation ==
    [h \in HeaderNames |-> [r \in RowKinds |->
        IF CleanRaises(ReaderRow(h, r)) THEN [raised |-> "AttributeError"]
        ELSE validate_csv_row(cleaned_row(Fieldnames(h), ReaderRow(h, r)))]]

load_csv_file(f) ==
    IF ~f.exists THEN [raised |-> "FileNotFoundError", payments |-> <<>>]
    ELSE IF ~validate_bulk_payment_file(f).valid
    THEN [raised |-> "ValueError: CSV validation failed", payments |-> <<>>]
    ELSE IF ~f.sniffable
            \/ \E n \in 1..Len(DataRows(f)) :
                   CleanRaises(ReaderRow(f.header, DataRows(f)[n]))
    THEN [raised |-> "ValueError: Error reading CSV file", payments |-> <<>>]
    ELSE [raised |-> "none",
          payments |-> [n \in 1..Len(DataRows(f)) |-> n + 1]]

\* rv[k] is validate_csv_row on payments[k]; an exception of
\* validate_csv_row leaves the function
PaymentsValidated(payments, rv) ==
    IF \E k \in 1..Len(payments) : rv[k].raised # "none"
    THEN [raised |-> "TypeError"]
    ELSE [raised |-> "none",
          total_payments   |-> Len(payments),
          valid_payments   |-> Cardinality({k \in 1..Len(payments) : rv[k].valid}),
          invalid_payments |-> Cardinality({k \in 1..Len(payments) : ~rv[k].valid}),
          valid_records    |-> SelectSeq(payments, LAMBDA rn : rv[rn - 1].valid),
          invalid_records  |-> SelectSeq(payments, LAMBDA rn : ~rv[rn - 1].valid)]

\* payments is what load_csv_file returned for f: record k is line k, with
\* '_row_number' k + 1
validate_payments(f, payments) ==
    PaymentsValidated(payments,
        [k \in 1..Len(payments) |->
            CleanedRowValidation[f.header][DataRows(f)[payments[k] - 1]]])

(***************************************************************************)
(* prepare_payment_batches(payments, batch_size)                           *)
(***************************************************************************)
StellarLimit == 100

\* variant: a last, shorter slice is left out
RangeLen_floor(n, step) == n \div step

\* the number of values of range(0, n, step), step > 0
RangeLen(n, step) == (n + step - 1) \div step

\* variant: each slice runs one record into the next one
prepare_payment_batches_overlap(payments, bsize) ==
    LET b == IF bsize > StellarLimit THEN StellarLimit ELSE bsize
        n == Len(payments)
    IN  IF b = 0 THEN [raised |-> "ValueError", batches |-> <<>>]
        ELSE IF b < 0 THEN [raised |-> "none", batches |-> <<>>]
        ELSE [raised |-> "none",
              batches |-> [j \in 1..RangeLen(n, b) |->
                              SubSeq(payments, (j - 1) * b + 1,
                                     IF j * b + 1 < n THEN j * b + 1 ELSE n)]]

\* variant: batch_size is not limited to the Stellar limit
prepare_payment_batches_noclamp(payments, bsize) ==
    LET b == bsize
        n == Len(payments)
    IN  IF b = 0 THEN [raised |-> "ValueError", batches |-> <<>>]
        ELSE IF b < 0 THEN [raised |-> "none", batches |-> <<>>]
        ELSE [raised |-> "none",
              batches |-> [j \in 1..RangeLen(n, b) |->
                              SubSeq(payments, (j - 1) * b + 1,
                                     IF j * b < n THEN j * b ELSE n)]]

prepare_payment_batches(payments, bsize) ==
    LET b == IF bsize > StellarLimit THEN StellarLimit ELSE bsize
        n == Len(payments)
    IN  IF b = 0 THEN [raised |-> "ValueError", batches |-> <<>>]
        ELSE IF b < 0 THEN [raised |-> "none", batches |-> <<>>]
        ELSE [raised |-> "none",
              batches |-> [j \in 1..RangeLen(n, b) |->
                              SubSeq(payments, (j - 1) * b + 1,
                                     IF j * b < n THEN j * b ELSE n)]]

(***************************************************************************)
(* execute_payment_batch(payments, source_keypair, memo, dry_run).  sdk is *)
(* what the SDK calls of this batch do: "ok", "fails_before_submit"        *)
(* (load_account, fetch_base_fee, the builder or sign raises) or           *)
(* "submit_fails" (server.submit_transaction raises).  built and submit    *)
(* tell whether the transaction was built and whether submit_transaction   *)
(* was called.                                                             *)
(***************************************************************************)
SdkOutcomes == {"ok", "fails_before_submit", "submit_fails"}

BatchResult(ok, dry, err, n) ==
    [successful |-> ok, dry_run |-> dry, error |-> err, operation_count |-> n]

\* variant: the dry-run return is missing
execute_payment_batch_no_dry_run(payments, dry, sdk) ==
    IF payments = <<>>
    THEN [result |-> BatchResult(FALSE, FALSE, "No payments provided", 0),
          built |-> FALSE, submit |-> FALSE]
    ELSE IF sdk = "fails_before_submit"
    THEN [result |-> BatchResult(FALSE, FALSE, "exception", Len(payments)),
          built |-> FALSE, submit |-> FALSE]
    ELSE IF sdk = "submit_fails"
    THEN [result |-> BatchResult(FALSE, FALSE, "exception", Len(payments)),
          built |-> TRUE, submit |-> TRUE]
    ELSE [result |-> BatchResult(TRUE, FALSE, "none", Len(payments)),
          built |-> TRUE, submit |-> TRUE]

execute_payment_batch(payments, dry, sdk) ==
    IF payments = <<>>
    THEN [result |-> BatchResult(FALSE, FALSE, "No payments provided", 0),
          built |-> FALSE, submit |-> FALSE]
    ELSE IF sdk = "fails_before_submit"
    THEN [result |-> BatchResult(FALSE, FALSE, "exception", Len(payments)),
          built |-> FALSE, submit |-> FALSE]
    ELSE IF dry
    THEN [result |-> BatchResult(TRUE, TRUE, "none", Len(payments)),
          built |-> TRUE, submit |-> FALSE]
    ELSE IF sdk = "submit_fails"
    THEN [result |-> BatchResult(FALSE, FALSE, "exception", Len(payments)),
          built |-> TRUE, submit |-> TRUE]
    ELSE [result |-> BatchResult(TRUE, FALSE, "none", Len(payments)),
          built |-> TRUE, submit |-> TRUE]

(***************************************************************************)
(* process_bulk_payments                                                   *)
(***************************************************************************)
\* variant: invalid payments only produce the warning
abort_on_invalid_never(invalid_payments, dry) == FALSE

\* the check that stops a run with invalid payments
abort_on_invalid(invalid_payments, dry) == invalid_payments > 0 /\ ~dry

\* variant: the sleep does not look at the position of the batch
pause_after_every_batch(idx, nbatches, delay) == delay > 0

\* the sleep condition at the end of the loop body, i counting from 0
pause_after(idx, nbatches, delay) == idx < nbatches - 1 /\ delay > 0

\* variant: a failed batch is counted like a successful one
tally_ignores_failure(result, n) == [successful |-> n, failed |-> 0]

\* what a batch of n payments adds to successful_payments and failed_payments
tally(result, n) ==
    IF result.successful THEN [successful |-> n, failed |-> 0]
    ELSE [successful |-> 0, failed |-> n]

NoValidation == [raised |-> "not run"]

PrologueFailed(e) == [error |-> e, validation |-> NoValidation, batches |-> <<>>]

\* after prepare_payment_batches
Prepared(val, prep) ==
    IF prep.raised # "none"
    THEN PrologueFailed("ValueError: range() arg 3 must not be zero")
    ELSE [error |-> "none", validation |-> val, batches |-> prep.batches]

\* after validate_payments
Validated(val, secret, bsize, dry) ==
    IF val.raised # "none" THEN PrologueFailed(val.raised)
    ELSE IF abort_on_invalid(val.invalid_payments, dry)
    THEN PrologueFailed("ValueError: Cannot process file with invalid payments")
    ELSE IF ~secret THEN PrologueFailed("Keypair.from_secret")
    ELSE Prepared(val, prepare_payment_batches(val.valid_records, bsize))

\* after load_csv_file
Loaded(f, loaded, secret, bsize, dry) ==
    IF loaded.raised # "none" THEN PrologueFailed(loaded.raised)
    ELSE Validated(validate_payments(f, loaded.payments), secret, bsize, dry)

\* everything before the loop: load, validate, keypair, batches.  error is
\* the exception that reaches the except clause, "none" without one.
Prologue(f, secret, bsize, dry) ==
    Loaded(f, load_csv_file(f), secret, bsize, dry)

NoResults == [pending |-> TRUE]

\* the dict returned by the except clause
ErrorResults(e) == [successful |-> FALSE, error |-> e, duration |-> "elapsed"]

CountBatches(ok) ==
    Cardinality({k \in 1..Len(batch_results) : batch_results[k].successful = ok})

CompiledResults ==
    [successful          |-> failed_payments = 0,
     total_payments      |-> validation.total_payments,
     valid_payments      |-> validation.valid_payments,
     invalid_payments    |-> validation.invalid_payments,
     successful_payments |-> successful_payments,
     failed_payments     |-> failed_payments,
     total_batches       |-> Len(batches),
     successful_batches  |-> CountBatches(TRUE),
     failed_batches      |-> CountBatches(FALSE),
     duration            |-> "elapsed",
     dry_run             |-> dry_run,
     batch_results       |-> batch_results]

Event(e, b) == [ev |-> e, batch |-> b]

\* variant: an exception of the prologue leaves process_bulk_payments
Enter_propagates(p) ==
    IF p.error # "none"
    THEN /\ pc' = "raised"
         /\ UNCHANGED <<results, validation, batches>>
    ELSE /\ validation' = p.validation
         /\ batches' = p.batches
         /\ pc' = "loop"
         /\ UNCHANGED results

\* the loop is entered unless the prologue p raised
Enter(p) ==
    IF p.error # "none"
    THEN /\ results' = ErrorResults(p.error)
         /\ pc' = "done"
         /\ UNCHANGED <<validation, batches>>
    ELSE /\ validation' = p.validation
         /\ batches' = p.batches
         /\ pc' = "loop"
         /\ UNCHANGED results

\* process_bulk_payments up to the loop
Start ==
    /\ pc = "start"
    /\ Enter(Prologue(file, secret_ok, batch_size, dry_run))
    /\ UNCHANGED <<file, secret_ok, batch_size, delay_between_batches, dry_run,
                   i, batch_results, successful_payments, failed_payments,
                   submitted, events>>
    /\ UNCHANGED <<amountVars, fileVars, reportVars, toolVars, extraVars>>

\* one iteration of the loop up to the sleep: execute batch i and record it
ExecuteBatch(sdk) ==
    /\ pc = "loop"
    /\ i < Len(batches)
    /\ LET batch == batches[i + 1]
           r     == execute_payment_batch(batch, dry_run, sdk)
       IN  /\ batch_results' = Append(batch_results, r.result)
           /\ successful_payments' =
                  successful_payments + tally(r.result, Len(batch)).successful
           /\ failed_payments' =
                  failed_payments + tally(r.result, Len(batch)).failed
           /\ events' = events
                        \o (IF r.built THEN <<Event("build", i + 1)>> ELSE <<>>)
                        \o (IF r.submit THEN <<Event("submit", i + 1)>> ELSE <<>>)
                        \o <<Event("record", i + 1)>>
           /\ submitted' = IF r.submit
                           THEN Append(submitted, [batch |-> i + 1,
                                                   payments |-> batch])
                           ELSE submitted
    /\ IF pause_after(i, Len(batches), delay_between_batches)
       THEN pc' = "sleep" /\ i' = i
       ELSE pc' = "loop" /\ i' = i + 1
    /\ UNCHANGED <<file, secret_ok, batch_size, delay_between_batches, dry_run,
                   validation, batches, results>>
    /\ UNCHANGED <<amountVars, fileVars, reportVars, toolVars, extraVars>>

\* time.sleep(delay_between_batches) at the end of iteration i
Sleep ==
    /\ pc = "sleep"
    /\ events' = Append(events, Event("sleep", i + 1))
    /\ i' = i + 1
    /\ pc' = "loop"
    /\ UNCHANGED <<file, secret_ok, batch_size, delay_between_batches, dry_run,
                   validation, batches, batch_results, successful_payments,
                   failed_payments, submitted, results>>
    /\ UNCHANGED <<amountVars, fileVars, reportVars, toolVars, extraVars>>

\* after the loop: compile and return the results
Finish ==
    /\ pc = "loop"
    /\ i = Len(batches)
    /\ results' = CompiledResults
    /\ pc' = "done"
    /\ UNCHANGED <<file, secret_ok, batch_size, delay_between_batches, dry_run,
                   validation, batches, i, batch_results, successful_payments,
                   failed_payments, submitted, events>>
    /\ UNCHANGED <<amountVars, fileVars, reportVars, toolVars, extraVars>>

(***************************************************************************)
(* bulk_command, action 'process', after process_bulk_payments returned    *)
(* result, and generate_payment_report.  A missing key of the result dict  *)
(* raises KeyError, which leaves bulk_command.                             *)
(***************************************************************************)
NoCommand == [ran |-> FALSE]

CommandOutcome(report_arg, printed, written, raised) ==
    [ran |-> TRUE, report_arg |-> report_arg, printed |-> printed,
     report |-> written, raised |-> raised]

\* generate_payment_report(results, output_file): the summary reads
\* results['total_payments'] first
generate_payment_report(result) ==
    IF "total_payments" \notin DOMAIN result THEN "KeyError: 'total_payments'"
    ELSE "none"

\* the report step: if args.report
ReportStep(result, report_arg, printed, raised) ==
    IF ~report_arg THEN CommandOutcome(report_arg, printed, FALSE, "none")
    ELSE CommandOutcome(report_arg, printed, raised = "none", raised)

\* the outcome message, then the report
bulk_command(result, report_arg) ==
    IF result.successful
    THEN ReportStep(result, report_arg, "completed",
                    generate_payment_report(result))
    ELSE IF "error" \notin DOMAIN result
    THEN CommandOutcome(report_arg, "none", FALSE, "KeyError: 'error'")
    ELSE ReportStep(result, report_arg, "failed",
                    generate_payment_report(result))

\* bulk_command from the return of process_bulk_payments on
BulkCommand(report_arg) ==
    /\ pc = "done" /\ command = NoCommand
    /\ command' = bulk_command(results, report_arg)
    /\ UNCHANGED <<coreVars, extraVars, airdropVars, configVars, txVars,
                   submissionVars>>

(***************************************************************************)
(* generate_monthly_report(year, month) and the previous-month report.     *)
(* A datetime is [year, month, day, hour] in UTC; datetime() raises        *)
(* ValueError outside MINYEAR..MAXYEAR and months 1..12.                   *)
(***************************************************************************)
MINYEAR == 1
MAXYEAR == 9999

datetime_ok(y, m) == MINYEAR <= y /\ y <= MAXYEAR /\ 1 <= m /\ m <= 12

datetime(y, m) == [year |-> y, month |-> m, day |-> 1, hour |-> 0]

\* variant: no special case for December
period_end_no_rollover(y, m) == <<y, m + 1>>

\* the (year, month) of end_time
period_end(y, m) == IF m = 12 THEN <<y + 1, 1>> ELSE <<y, m + 1>>

NoPeriod == [year |-> 0, month |-> 0, day |-> 0, hour |-> 0]

\* io_ok: the report files could be written.  analysed tells whether
\* analyze_token_transactions(start_time, end_time) was called.
generate_monthly_report(y, m, io_ok) ==
    LET e == period_end(y, m)
    IN  IF datetime_ok(y, m) /\ datetime_ok(e[1], e[2])
        THEN [successful |-> io_ok, analysed |-> TRUE, year |-> y, month |-> m,
              start_time |-> datetime(y, m), end_time |-> datetime(e[1], e[2])]
        ELSE [successful |-> FALSE, analysed |-> FALSE, year |-> y, month |-> m,
              start_time |-> NoPeriod, end_time |-> NoPeriod]

\* a returned report together with the call that made it
Called(call, r) == [call |-> call, result |-> r]

\* the previous month of a date
previous_month(d) ==
    IF d.month = 1 THEN <<d.year - 1, 12>> ELSE <<d.year, d.month - 1>>

NoReport == [call |-> "none"]

(***************************************************************************)
(* Inputs                                                                  *)
(***************************************************************************)
SeqsUpTo(S, n) == UNION {[1..k -> S] : k \in 0..n}

AmountAlphabet == {"0", "1", "8", ".", "-", "e", " "}

SpecialAmounts ==
    {<<"I", "n", "f", "i", "n", "i", "t", "y">>,
     <<"i", "n", "f">>,
     <<"I", "N", "F">>,
     <<"+", "i", "n", "f">>,
     <<"-", "I", "n", "f", "i", "n", "i", "t", "y">>,
     <<"N", "a", "N">>,
     <<"s", "N", "a", "N">>,
     <<"n", "a", "n", "1">>,
     <<"a", "b", "c">>,
     <<"9", "2", "2", "3", "3", "7", "2", "0", "3", "6", "8", "5", ".", "4", "7", "7", "5", "8", "0", "7">>,
     <<"9", "2", "2", "3", "3", "7", "2", "0", "3", "6", "8", "5", ".", "4", "7", "7", "5", "8", "0", "8">>,
     <<"9", "2", "2", "3", "3", "7", "2", "0", "3", "6", "8", "5", ".", "4", "7", "7", "5", "8", "0", "7", "0">>,
     <<"9", "2", "2", "3", "3", "7", "2", "0", "3", "6", "8", "6">>,
     <<"1", "e", "-", "7">>,
     <<"1", "e", "-", "8">>,
     <<"0", ".", "0", "0", "0", "0", "0", "0", "1">>,
     <<"0", ".", "0", "0", "0", "0", "0", "0", "0", "1">>,
     <<"1", ".", "0", "0", "0", "0", "0", "0", "0", "0">>,
     <<"0", ".", "1", "2", "3", "4", "5", "6", "7", "8", "e", "1">>,
     <<"1", "E", "+", "2">>,
     <<"1", "e", "1", "1">>,
     <<"1", "e", "1", "2">>,
     <<"1", "0", "0", ".", "5">>,
     <<"-", "0">>,
     <<"+", "1">>,
     <<" ", "1", " ">>,
     <<"1", " ", "1">>}

AmountInputs ==
    {Str(a) : a \in SeqsUpTo(AmountAlphabet, MaxAmountLen) \cup SpecialAmounts}
    \cup {None}

\* files given to validate_bulk_payment_file
Files ==
    [exists : {TRUE}, sniffable : BOOLEAN, header : HeaderNames,
     rows : SeqsUpTo(RowKinds, MaxRows)]
    \cup {[exists |-> FALSE, sniffable |-> FALSE,
           header |-> "address,amount", rows |-> <<>>]}

\* files given to process_bulk_payments
BulkHeaders  == {"address,amount,memo", "address,amount, memo"}
BulkRowKinds == {"ok", "padded", "short", "bad_address", "inf_amount",
                 "long_memo"}
UniformSizes == {3, 4, 100, 101, 201}

BulkFiles ==
    [exists : {TRUE}, sniffable : {TRUE}, header : BulkHeaders,
     rows : SeqsUpTo(BulkRowKinds, MaxRows)]
    \cup {[exists |-> TRUE, sniffable |-> TRUE, header |-> "address,amount,memo",
           rows |-> [k \in 1..n |-> "ok"]] : n \in UniformSizes}
    \cup {[exists |-> FALSE, sniffable |-> FALSE,
           header |-> "address,amount", rows |-> <<>>],
          [exists |-> TRUE, sniffable |-> FALSE,
           header |-> "address,amount,memo", rows |-> <<"ok">>],
          [exists |-> TRUE, sniffable |-> TRUE,
           header |-> "address,memo", rows |-> <<"ok">>]}

BatchSizes == {-1, 0, 1, 2, 50, 100, 101, 150}
Delays == {0, 1}

\* the run has at most MaxBatches batches
WithinMaxBatches(f, bsize) ==
    IF bsize <= 0 THEN TRUE
    ELSE RangeLen(Len(f.rows),
                  IF bsize > StellarLimit THEN StellarLimit ELSE bsize)
             <= MaxBatches

\* the accounts that can be funded
PayableAddresses == {"GA", "GB"}
SheetRows == [stellarAddress : {"GA", "GB", "no_g"}, projectName : {TRUE}]
             \cup {[stellarAddress |-> "GA", projectName |-> FALSE]}

ReportYears  == {0, 1, 2024, 2025, 9998, 9999, 10000}
ReportMonths == 0..13
NowYears     == {2024, 2025, 2026}

(***************************************************************************)
(* The airdrop tools: airdrop_handler.py, google_sheets_handler.py,        *)
(* airdrop_distribution.py and airdrop_monitor.py.  A submitted address is *)
(* named by its kind; StartsWithG, AddressLen and Decodes give what the    *)
(* checks look at.                                                         *)
(***************************************************************************)
SubmittedAddresses == {"GA", "GB", " GA ", "G_undecodable", "G_short", "no_g",
                       "empty", "None"}

\* str.strip() on the submitted address
strip_address(a) == IF a = " GA " THEN "GA" ELSE a

StartsWithG(a) == a \in {"GA", "GB", "G_undecodable", "G_short"}

AddressLen(a) ==
    CASE a = "empty"   -> 0
      [] a = "G_short" -> 3
      [] OTHER         -> 56

\* Keypair.from_public_key(address) does not raise
Decodes(a) == a \in {"GA", "GB"}

\* airdrop_handler.validate_stellar_address(address)[0]
handler_validate_stellar_address(a) ==
    IF a = "empty" THEN FALSE
    ELSE IF ~StartsWithG(a) THEN FALSE
    ELSE IF AddressLen(a) # 56 THEN FALSE
    ELSE Decodes(a)

\* what server.load_account does in check_account_exists and
\* check_ogc_trustline
AccountOutcomes == {"ok", "404", "error"}
TrustlineOutcomes == {"found", "not_found", "error"}

Checked(status, checks) == [status |-> status, validations |-> checks]

\* the checks from check_account_exists on, for an address whose format
\* is valid
AfterFormat(account, trustline) ==
    IF account # "ok"
    THEN Checked("pending_funding", <<"address_format", "account_exists">>)
    ELSE IF trustline # "found"
    THEN Checked("pending_trustline",
                 <<"address_format", "account_exists", "ogc_trustline">>)
    ELSE Checked("approved",
                 <<"address_format", "account_exists", "ogc_trustline">>)

\* variant: the trustline is looked at before the account
process_airdrop_submission_trustline_first(a, account, trustline) ==
    IF a = "None" THEN Checked("AttributeError", <<>>)
    ELSE IF ~handler_validate_stellar_address(strip_address(a))
    THEN Checked("rejected", <<"address_format">>)
    ELSE IF trustline # "found"
    THEN Checked("pending_trustline", <<"address_format", "ogc_trustline">>)
    ELSE IF account # "ok"
    THEN Checked("pending_funding",
                 <<"address_format", "ogc_trustline", "account_exists">>)
    ELSE Checked("approved",
                 <<"address_format", "ogc_trustline", "account_exists">>)

\* airdrop_handler.process_airdrop_submission: the status, and the checks
\* made in the order they were made; None.strip() raises AttributeError
process_airdrop_submission(a, account, trustline) ==
    IF a = "None" THEN Checked("AttributeError", <<>>)
    ELSE IF ~handler_validate_stellar_address(strip_address(a))
    THEN Checked("rejected", <<"address_format">>)
    ELSE AfterFormat(account, trustline)

\* google_sheets_handler.process_submission
process_submission(a, account, trustline) ==
    IF a = "None" THEN Checked("AttributeError", <<>>)
    ELSE IF ~handler_validate_stellar_address(strip_address(a))
    THEN Checked("rejected", <<"address_format">>)
    ELSE IF account # "ok"
    THEN Checked("pending_funding", <<"address_format", "account_exists">>)
    ELSE IF trustline # "found"
    THEN Checked("pending_trustline",
                 <<"address_format", "account_exists", "ogc_trustline">>)
    ELSE Checked("approved",
                 <<"address_format", "account_exists", "ogc_trustline">>)

NoStatus == [status |-> "pending", validations |-> <<>>, returned |-> FALSE]

Returning(r) ==
    [status |-> r.status, validations |-> r.validations,
     returned |-> r.status # "AttributeError"]

\* add_to_recipient_list: appended unless a line of the file has it
add_to_recipient_list(lines, a) ==
    IF \E k \in 1..Len(lines) : lines[k] = a THEN lines ELSE Append(lines, a)

\* the loop body of process_google_sheet_submissions after
\* process_submission gave status; st is the processed set, the recipients
\* file and approved_count
RowProcessed(row, st, status) ==
    [processed  |-> st.processed \cup {row.stellarAddress},
     recipients |-> IF status = "approved"
                    THEN add_to_recipient_list(st.recipients, row.stellarAddress)
                    ELSE st.recipients,
     approved   |-> IF status = "approved" THEN st.approved + 1 ELSE st.approved]

\* one row: skipped when already processed or when a required field is
\* missing
ProcessRow(row, st, fnd, tls) ==
    IF row.stellarAddress \in st.processed THEN st
    ELSE IF row.stellarAddress = "empty" \/ ~row.projectName THEN st
    ELSE RowProcessed(row, st,
             process_submission(row.stellarAddress,
                 IF row.stellarAddress \in fnd THEN "ok" ELSE "404",
                 IF row.stellarAddress \in tls THEN "found" ELSE "not_found").status)

RECURSIVE process_google_sheet_submissions(_, _, _, _)
process_google_sheet_submissions(rows, st, fnd, tls) ==
    IF rows = <<>> THEN st
    ELSE process_google_sheet_submissions(Tail(rows),
             ProcessRow(Head(rows), st, fnd, tls), fnd, tls)

\* load_recipients: the lines that start with G
load_recipients(lines) == SelectSeq(lines, StartsWithG)

\* send_airdrop: one payment per loaded recipient; it succeeds when the
\* account exists, has the trustline and the network call does not fail
send_airdrop(lines, fnd, tls, failing, count) ==
    [a \in DOMAIN count |->
        IF /\ \E k \in 1..Len(load_recipients(lines)) :
                  load_recipients(lines)[k] = a
           /\ a \in fnd /\ a \in tls /\ a \notin failing
        THEN count[a] + 1 ELSE count[a]]

(***************************************************************************)
(* config.py, switch_network.py and StellarManager.__init__.  A line of    *)
(* .env is [key, form, value]: form "plain" is KEY=value, form "export" is *)
(* 'export KEY=value', which python-dotenv reads as well.  "None" stands   *)
(* for None and for a variable that is not set.                            *)
(***************************************************************************)
STELLAR_NETWORK == "STELLAR_NETWORK"
ISSUER_SECRET_KEY == "ISSUER_SECRET_KEY"
PUBLIC_NETWORK_PASSPHRASE == "Public Global Stellar Network ; September 2015"
TESTNET_NETWORK_PASSPHRASE == "Test SDF Network ; September 2015"

EnvLine(k, f, v) == [key |-> k, form |-> f, value |-> v]

\* line.startswith('STELLAR_NETWORK=')
IsNetworkLine(line) == line.key = STELLAR_NETWORK /\ line.form = "plain"

\* the loop of switch_to_mainnet and switch_to_testnet
switch_to(lines, network) ==
    [k \in 1..Len(lines) |->
        IF IsNetworkLine(lines[k]) THEN EnvLine(STELLAR_NETWORK, "plain", network)
        ELSE lines[k]]

\* dotenv_values: the last binding of a key wins
dotenv_value(lines, key) ==
    IF \A k \in 1..Len(lines) : lines[k].key # key THEN "None"
    ELSE lines[SetMax({k \in 1..Len(lines) : lines[k].key = key})].value

\* os.getenv(key, default) after load_dotenv(), which does not override a
\* variable the process already has
getenv_set(fromEnv, fromFile, default) ==
    IF fromEnv # "None" THEN fromEnv
    ELSE IF fromFile # "None" THEN fromFile
    ELSE default

getenv(env, lines, key, default) ==
    getenv_set(env[key], dotenv_value(lines, key), default)

\* str.lower() on the network names
lower_name(v) == IF v = "Public" THEN "public" ELSE v

\* Config.load_config, given STELLAR_NETWORK and ISSUER_SECRET_KEY
ConfigOf(network, secret) ==
    [STELLAR_NETWORK    |-> network,
     NETWORK_PASSPHRASE |-> IF network = "public" THEN PUBLIC_NETWORK_PASSPHRASE
                            ELSE TESTNET_NETWORK_PASSPHRASE,
     HORIZON_URL        |-> IF network = "public"
                            THEN "https://horizon.stellar.org"
                            ELSE "https://horizon-testnet.stellar.org",
     ISSUER_SECRET_KEY  |-> secret]

load_config(env, lines) ==
    ConfigOf(lower_name(getenv(env, lines, STELLAR_NETWORK, "testnet")),
             getenv(env, lines, ISSUER_SECRET_KEY, "None"))

\* key.upper()
upper_key(key) ==
    CASE key = "issuer_secret" -> "ISSUER_SECRET"
      [] key = "issuer_secret_key" -> "ISSUER_SECRET_KEY"
      [] key = "network" -> "NETWORK"
      [] key = "horizon_url" -> "HORIZON_URL"
      [] key = "issuer_address" -> "ISSUER_ADDRESS"
      [] key = "token_code" -> "TOKEN_CODE"
      [] key = "total_supply" -> "TOTAL_SUPPLY"
      [] OTHER -> key

\* Config.get(key, default): getattr(self, key.upper(), default)
ConfigGet(c, key, default) ==
    IF upper_key(key) \in DOMAIN c THEN c[upper_key(key)] ELSE default

\* Config.set(key, value): setattr(self, key.upper(), value)
ConfigSet(c, key, value) ==
    [a \in DOMAIN c \cup {upper_key(key)} |->
        IF a = upper_key(key) THEN value ELSE c[a]]

\* the secrets Keypair.from_secret accepts
ValidSecrets == {"S_valid"}

\* StellarManager.__init__ from the issuer secret it read
ManagerOf(issuer_secret) ==
    IF issuer_secret \in {"None", ""}
    THEN [raised |-> FALSE, issuer_keypair |-> "None", ogc_asset |-> "None"]
    ELSE IF issuer_secret \notin ValidSecrets
    THEN [raised |-> TRUE, issuer_keypair |-> "None", ogc_asset |-> "None"]
    ELSE [raised |-> FALSE, issuer_keypair |-> issuer_secret, ogc_asset |-> "OGC"]

StellarManager(c) == ManagerOf(ConfigGet(c, "issuer_secret", "None"))

ManagerOps == {"create_trustline", "remove_trustline", "send_payment"}

NotConfigured == "OGC asset not configured - issuer secret required"

\* create_trustline, remove_trustline and send_payment up to their result;
\* inputs_ok: send_payment's destination, amount and memo are valid
ManagerOp(m, op, inputs_ok, sdk_ok) ==
    IF op = "send_payment" /\ ~inputs_ok
    THEN [successful |-> FALSE, error |-> "Invalid input"]
    ELSE IF m.ogc_asset = "None"
    THEN [successful |-> FALSE, error |-> NotConfigured]
    ELSE IF ~sdk_ok THEN [successful |-> FALSE, error |-> "exception"]
    ELSE [successful |-> TRUE, error |-> "none"]

NoConfig == [loaded |-> FALSE]
NoManager == [built |-> FALSE]
NoOp == [op |-> "none"]

\* the .env files and process environments of the model
EnvLines ==
    {EnvLine(STELLAR_NETWORK, "plain", v) :
        v \in {"testnet", "public", "mainnet", "Public"}}
    \cup {EnvLine(STELLAR_NETWORK, "export", "public")}
    \cup {EnvLine(ISSUER_SECRET_KEY, "plain", v) : v \in {"S_valid", "S_invalid", ""}}
EnvFiles == SeqsUpTo(EnvLines, MaxEnvLines)
Environs == [{STELLAR_NETWORK, ISSUER_SECRET_KEY} -> {"None"}]
            \cup {[k \in {STELLAR_NETWORK, ISSUER_SECRET_KEY} |->
                      IF k = STELLAR_NETWORK THEN "public" ELSE "None"]}

(***************************************************************************)
(* TransparencyReporter.get_account_transactions.  A record is             *)
(* [hash, created_at]; times are numbers; NoTime is None.                  *)
(***************************************************************************)
NoTime == -1
NotCalled == [called |-> FALSE]

\* if end_time and tx_time > end_time: break
BreaksAt(tx, endt) == endt # NoTime /\ tx.created_at > endt

\* if start_time and tx_time < start_time: continue
Skipped(tx, start) == start # NoTime /\ tx.created_at < start

\* the loop: the records before the first break that are not skipped
LoopUpTo(records, stop, start) ==
    SelectSeq(SubSeq(records, 1, stop - 1), LAMBDA tx : ~Skipped(tx, start))

FirstBreak(records, breaking) ==
    IF breaking = {} THEN Len(records) + 1 ELSE SetMin(breaking)

\* fetch_ok: the Horizon call and the parsing of created_at do not raise
get_account_transactions(records, start, endt, fetch_ok) ==
    IF ~fetch_ok THEN <<>>
    ELSE LoopUpTo(records,
                  FirstBreak(records, {k \in 1..Len(records) :
                                          BreaksAt(records[k], endt)}),
                  start)

\* order(desc=True): pages of at most MaxPage records, newest first
NewestFirst(ts) == \A k \in 1..(Len(ts) - 1) : ts[k] >= ts[k + 1]
Pages ==
    {[k \in 1..Len(ts) |-> [hash |-> k, created_at |-> ts[k]]] :
        ts \in {q \in SeqsUpTo(0..MaxTime, MaxPage) : NewestFirst(q)}}
TimeArgs == {NoTime} \cup 0..MaxTime

(***************************************************************************)
(* Config.save, Config() from the file it wrote, and the interactive       *)
(* setup_config_command.  Of the settings of get_all_settings the five     *)
(* the tools are configured with and horizon_url are kept; website_url,    *)
(* base_fee, timeout, batch_size and rate_limit_delay are written and read *)
(* under one name each.  A value is its text, "None" is None.              *)
(***************************************************************************)
ISSUER_PUBLIC_KEY == "ISSUER_PUBLIC_KEY"
TOKEN_CODE == "TOKEN_CODE"
TOTAL_SUPPLY == "TOTAL_SUPPLY"

\* the texts int() accepts, among the values of the model
IntTexts == {"1000000", "1000000000", "500", "2000"}

\* Config.load_config with the account and token settings
SettingsOf(network, secret, public, token, supply) ==
    ConfigOf(network, secret)
    @@ [ISSUER_PUBLIC_KEY |-> public, TOKEN_CODE |-> token,
        TOTAL_SUPPLY |-> supply]

\* os.getenv(key, default) in a process that has only the variables of the
\* .env file
getenv_file(lines, key, default) ==
    getenv_set("None", dotenv_value(lines, key), default)

\* Config() in such a process; int(os.getenv('TOTAL_SUPPLY', '1000000'))
\* raises ValueError on a text that is not an integer
Config(lines) ==
    IF getenv_file(lines, TOTAL_SUPPLY, "1000000") \notin IntTexts
    THEN [loaded |-> TRUE, raised |-> TRUE]
    ELSE [loaded |-> TRUE, raised |-> FALSE]
         @@ SettingsOf(lower_name(getenv_file(lines, STELLAR_NETWORK, "testnet")),
                       getenv_file(lines, ISSUER_SECRET_KEY, "None"),
                       getenv_file(lines, ISSUER_PUBLIC_KEY, "None"),
                       getenv_file(lines, TOKEN_CODE, "OGC"),
                       getenv_file(lines, TOTAL_SUPPLY, "1000000"))

\* Config.get_all_settings, in the order of the dict
get_all_settings(c) ==
    << <<"network", c.STELLAR_NETWORK>>,
       <<"horizon_url", c.HORIZON_URL>>,
       <<"token_code", c.TOKEN_CODE>>,
       <<"total_supply", c.TOTAL_SUPPLY>>,
       <<"issuer_address", c.ISSUER_PUBLIC_KEY>>,
       <<"issuer_secret", c.ISSUER_SECRET_KEY>> >>

\* f"{key.upper()}={value}" for the settings that are not None
EnvContent(settings) ==
    [k \in 1..Len(settings) |->
        EnvLine(upper_key(settings[k][1]), "plain", settings[k][2])]

\* Config.save: the lines written to .env
save(c) ==
    EnvContent(SelectSeq(get_all_settings(c), LAMBDA kv : kv[2] # "None"))

NoEnvFile == [written |-> FALSE, lines |-> <<>>]

\* input(prompt).strip() or default
input_or(text, default) == IF text = "" THEN default ELSE text

\* "if issuer_address: config.set(...)"
SetIfGiven(c, key, text) == IF text = "" THEN c ELSE ConfigSet(c, key, text)

\* setup_config_command --interactive up to config.save()
setup_config_command(c, in) ==
    ConfigSet(
      ConfigSet(
        SetIfGiven(
          SetIfGiven(
            ConfigSet(c, "network", input_or(in.network, "testnet")),
            "issuer_address", in.issuer_address),
          "issuer_secret", in.issuer_secret),
        "token_code", input_or(in.token_code, "OGC")),
      "total_supply", input_or(in.total_supply, "1000000000"))

\* the Configs a process starts with and what is typed at the prompts
StartConfigs ==
    {[loaded |-> TRUE, raised |-> FALSE] @@ SettingsOf(n, s, a, t, v) :
        n \in {"testnet", "public"}, s \in {"None", "S_valid"},
        a \in {"None", "G_issuer"}, t \in {"OGC", "XYZ"},
        v \in {"1000000", "500"}}
SetupInputs ==
    [network : {"", "public", "testnet"}, issuer_address : {"", "G_new"},
     issuer_secret : {"", "S_valid"}, token_code : {"", "TKN"},
     total_supply : {"", "2000", "2 000"}]

(***************************************************************************)
(* The fund fee (tools/open_build_fund.py): Decimal multiplication and     *)
(* subtraction in the default context of the decimal module, precision     *)
(* prec and ROUND_HALF_EVEN.  A coefficient is its sequence of digits, so  *)
(* that no digit is lost to the width of an integer.                       *)
(***************************************************************************)
\* decimal.getcontext().prec
prec == 28

Zeros(n) == [k \in 1..n |-> 0]

Dec(sign, digits, exp) ==
    [kind |-> "finite", sign |-> sign, digits |-> digits, exp |-> exp]

StripFrom(ds, nz) ==
    IF nz = {} THEN <<0>> ELSE SubSeq(ds, SetMin(nz), Len(ds))

\* a coefficient without its leading zeros
StripZeros(ds) == StripFrom(ds, {k \in 1..Len(ds) : ds[k] # 0})

RECURSIVE DigitsOfInt(_)
DigitsOfInt(n) == IF n = 0 THEN <<>> ELSE DigitsOfInt(n \div 10) \o <<n % 10>>

\* the coefficient of a fee rate, of a few digits, as a number
RECURSIVE CoefficientValue(_)
CoefficientValue(ds) ==
    IF ds = <<>> THEN 0
    ELSE 10 * CoefficientValue(SubSeq(ds, 1, Len(ds) - 1)) + ds[Len(ds)]

\* ds * m from the last digit on
RECURSIVE MulCarry(_, _, _)
MulCarry(ds, m, carry) ==
    IF ds = <<>> THEN DigitsOfInt(carry)
    ELSE MulCarry(SubSeq(ds, 1, Len(ds) - 1), m,
                  (ds[Len(ds)] * m + carry) \div 10)
         \o <<(ds[Len(ds)] * m + carry) % 10>>

MulDigits(ds, m) == StripZeros(MulCarry(ds, m, 0))

\* the exact product of two finite decimals
multiply_exact(a, b) ==
    Dec((a.sign + b.sign) % 2, MulDigits(a.digits, CoefficientValue(b.digits)),
        a.exp + b.exp)

\* ROUND_HALF_EVEN on the digits that are dropped
RoundsUp(kept, dropped) ==
    \/ dropped[1] > 5
    \/ /\ dropped[1] = 5
       /\ \/ \E k \in 2..Len(dropped) : dropped[k] # 0
          \/ kept[Len(kept)] % 2 = 1

AddOne(ds, not9) ==
    IF not9 = {} THEN <<1>> \o Zeros(Len(ds))
    ELSE [k \in 1..Len(ds) |->
             IF k < SetMax(not9) THEN ds[k]
             ELSE IF k = SetMax(not9) THEN ds[k] + 1 ELSE 0]

Increment(ds) == AddOne(ds, {k \in 1..Len(ds) : ds[k] # 9})

\* a coefficient of prec + 1 digits after rounding up is 10^prec
Rounded(sign, ds, exp) ==
    IF Len(ds) > prec THEN Dec(sign, SubSeq(ds, 1, prec), exp + 1)
    ELSE Dec(sign, ds, exp)

\* Decimal._fix: the result of an operation rounded to prec digits
fix(d) ==
    IF Len(d.digits) <= prec THEN d
    ELSE Rounded(d.sign,
                 IF RoundsUp(SubSeq(d.digits, 1, prec),
                             SubSeq(d.digits, prec + 1, Len(d.digits)))
                 THEN Increment(SubSeq(d.digits, 1, prec))
                 ELSE SubSeq(d.digits, 1, prec),
                 d.exp + Len(d.digits) - prec)

\* the coefficient of d at the exponent e <= d.exp, in n digits
Aligned(d, e, n) ==
    Zeros(n - Len(d.digits) - (d.exp - e)) \o d.digits \o Zeros(d.exp - e)

BorrowFrom(big, small, diff) ==
    diff # {} /\ big[SetMin(diff)] < small[SetMin(diff)]

\* the digit k borrows: the digits after it are less in big than in small
Borrows(big, small, k) ==
    BorrowFrom(big, small, {j \in (k + 1)..Len(big) : big[j] # small[j]})

\* big - small for big >= small of one length
SubDigits(big, small) ==
    [k \in 1..Len(big) |->
        (10 + big[k] - small[k] - (IF Borrows(big, small, k) THEN 1 ELSE 0)) % 10]

\* the digits after k carry into it
Carries(pa, pb, k) ==
    \E j \in (k + 1)..Len(pa) :
        /\ pa[j] + pb[j] >= 10
        /\ \A n \in (k + 1)..(j - 1) : pa[n] + pb[n] = 9

\* pa + pb for two sequences of one length that start with 0
AddDigits(pa, pb) ==
    [k \in 1..Len(pa) |->
        (pa[k] + pb[k] + (IF Carries(pa, pb, k) THEN 1 ELSE 0)) % 10]

\* a - b for the coefficients pa and pb at one exponent e
SubtractAligned(sa, sb, pa, pb, e) ==
    IF sa # sb THEN Dec(sa, StripZeros(AddDigits(pa, pb)), e)
    ELSE IF pa = pb THEN Dec(0, <<0>>, e)
    ELSE IF GreaterDigits(pa, pb) THEN Dec(sa, StripZeros(SubDigits(pa, pb)), e)
    ELSE Dec(1 - sa, StripZeros(SubDigits(pb, pa)), e)

SubtractAt(a, b, e, n) ==
    SubtractAligned(a.sign, b.sign, Aligned(a, e, n), Aligned(b, e, n), e)

WidthAt(a, b, e) ==
    1 + Longer(a.digits \o Zeros(a.exp - e), b.digits \o Zeros(b.exp - e))

SubtractFrom(a, b, e) == SubtractAt(a, b, e, WidthAt(a, b, e))

\* the exact difference of two finite decimals
subtract_exact(a, b) ==
    SubtractFrom(a, b, IF a.exp < b.exp THEN a.exp ELSE b.exp)

NaN == [kind |-> "nan", sign |-> 0, digits |-> <<0>>, exp |-> 0]
Infinity(sign) == [kind |-> "inf", sign |-> sign, digits |-> <<0>>, exp |-> 0]
Raises == [kind |-> "invalid", sign |-> 0, digits |-> <<0>>, exp |-> 0]

\* Decimal.__mul__; kind "invalid" is the InvalidOperation that is raised
multiply(a, b) ==
    IF a.kind = "nan" \/ b.kind = "nan" THEN NaN
    ELSE IF a.kind = "inf" \/ b.kind = "inf"
    THEN (IF IsZero(a) \/ IsZero(b) THEN Raises
          ELSE Infinity((a.sign + b.sign) % 2))
    ELSE fix(multiply_exact(a, b))

\* Decimal.__sub__
subtract(a, b) ==
    IF a.kind = "nan" \/ b.kind = "nan" THEN NaN
    ELSE IF a.kind = "inf" /\ b.kind = "inf"
    THEN (IF a.sign = b.sign THEN Raises ELSE a)
    ELSE IF a.kind = "inf" THEN a
    ELSE IF b.kind = "inf" THEN Infinity(1 - b.sign)
    ELSE fix(subtract_exact(a, b))

FeeError == [error |-> "InvalidOperation"]

\* the dict that is returned; str() of a Decimal shows its sign, digits and
\* exponent, so a result is kept as the Decimal
FeeResult(original, rate, fund_fee, recipient_amount) ==
    IF fund_fee.kind = "invalid" \/ recipient_amount.kind = "invalid"
    THEN FeeError
    ELSE [original_amount |-> original, fund_fee |-> fund_fee,
          recipient_amount |-> recipient_amount, fee_rate |-> rate]

FeeOf(original, rate, fund_fee) ==
    FeeResult(original, rate, fund_fee,
              IF fund_fee.kind = "invalid" THEN Raises
              ELSE subtract(original, fund_fee))

FeeFrom(original, rate) ==
    IF original.kind = "invalid" \/ rate.kind = "invalid" THEN FeeError
    ELSE FeeOf(original, rate, multiply(original, rate))

calculate_transaction_with_fund_fee(amount_str, fee_rate_str) ==
    FeeFrom(Decimal(amount_str), Decimal(fee_rate_str))

\* self.TRANSACTION_FEE_RATE = Decimal('0.001')
TRANSACTION_FEE_RATE == <<"0", ".", "0", "0", "1">>

ContributionOf(r) ==
    IF "error" \in DOMAIN r THEN [raised |-> TRUE]
    ELSE [raised |-> FALSE, fund_amount |-> r.fund_fee,
          remaining_amount |-> r.recipient_amount, fee_rate |-> r.fee_rate]

\* the same computation with the rate of the fund; an exception is logged
\* and raised again
calculate_fund_contribution(transaction_amount) ==
    ContributionOf(calculate_transaction_with_fund_fee(transaction_amount,
                                                       TRANSACTION_FEE_RATE))

\* the amounts of the model: a first digit, one repeated digit and a last
\* digit, of 1 to MaxFundDigits digits, in units or in units of 10^-7, and
\* three that are no finite numbers
AmountText(n, first, fill, last, suffix) ==
    [k \in 1..n |-> IF k = n /\ n > 1 THEN last
                    ELSE IF k = 1 THEN first ELSE fill] \o suffix
FundAmounts ==
    {AmountText(n, first, fill, last, suffix) :
        n \in 1..MaxFundDigits, first \in {"1", "9"}, fill \in {"0", "9"},
        last \in {"0", "1", "5", "9"}, suffix \in {<<>>, <<"e", "-", "7">>}}
    \cup {<<"0">>, <<"a", "b", "c">>, <<"N", "a", "N">>,
          <<"I", "n", "f">>}
FeeRates ==
    {<<"0", ".", "0", "0", "1">>, <<"0", ".", "0", "2", "5">>,
     <<"0", ".", "5">>, <<"1">>, <<"0">>, <<"-", "0", ".", "0", "1">>,
     <<"x">>}

(***************************************************************************)
(* ForgeWebHandler.handle_save_file and clean_path (admin/file-api.py).    *)
(* A path is a Python string, a sequence of characters; the file system    *)
(* resolves the path that open() is given segment by segment.              *)
(***************************************************************************)
\* os.path.dirname(os.path.dirname(self.admin_dir)), an absolute directory
website_root == <<"/", "h", "/", "w">>

ParentRef == <<".", ".", "/">>

StartsWithParentRef(s) == Len(s) >= 3 /\ SubSeq(s, 1, 3) = ParentRef

\* path.replace('../', ''): the occurrences found from left to right, not
\* overlapping, are removed in one pass
RECURSIVE replace_parent_refs(_)
replace_parent_refs(s) ==
    IF Len(s) < 3 THEN s
    ELSE (IF StartsWithParentRef(s) THEN <<>> ELSE <<Head(s)>>)
         \o replace_parent_refs(SubSeq(s, IF StartsWithParentRef(s) THEN 4 ELSE 2,
                                       Len(s)))

startswith_slash(s) == Len(s) > 0 /\ Head(s) = "/"

\* if clean_path.startswith('/'): clean_path = clean_path[1:]
strip_leading_slash(s) == IF startswith_slash(s) THEN Tail(s) ELSE s

clean_path(path) == strip_leading_slash(replace_parent_refs(path))

\* os.path.join(a, p) for a directory a that does not end with '/'
os_path_join(a, p) ==
    IF startswith_slash(p) THEN p ELSE a \o <<"/">> \o p

\* one segment of a path applied to the directories walked so far
PushSegment(stack, seg) ==
    IF seg = <<>> \/ seg = <<".">> THEN stack
    ELSE IF seg = <<".", ".">>
    THEN (IF stack = <<>> THEN <<>> ELSE SubSeq(stack, 1, Len(stack) - 1))
    ELSE Append(stack, seg)

\* the segments of the file an absolute path names (no symbolic links)
RECURSIVE WalkPath(_, _, _)
WalkPath(s, stack, seg) ==
    IF s = <<>> THEN PushSegment(stack, seg)
    ELSE IF Head(s) = "/" THEN WalkPath(Tail(s), PushSegment(stack, seg), <<>>)
    ELSE WalkPath(Tail(s), stack, Append(seg, Head(s)))

realpath(p) == WalkPath(p, <<>>, <<>>)

IsPrefix(a, b) == Len(a) <= Len(b) /\ SubSeq(b, 1, Len(a)) = a

LastSegment(p, slashes) ==
    SubSeq(p, (IF slashes = {} THEN 0 ELSE SetMax(slashes)) + 1, Len(p))

\* open(full_path, 'w') raises IsADirectoryError: the path ends with '/',
\* '.' or '..', or it names website_root or a directory above it
NamesDirectory(p) ==
    \/ LastSegment(p, {k \in 1..Len(p) : p[k] = "/"}) \in {<<>>, <<".">>, <<".", ".">>}
    \/ IsPrefix(realpath(p), realpath(website_root))

NoFile == <<>>
NoRequest == [path |-> None, content |-> None]
NoResponse == [status |-> "none", path |-> <<>>, written |-> NoFile]

\* "if not file_path or file_content is None"
MissingPathOrContent(data) ==
    \/ data.path = None \/ data.path = Str(<<>>)
    \/ data.content = None

\* the write of handle_save_file for a str path; os_ok: makedirs and open
\* are permitted by the operating system
SaveTo(clean, full_path, os_ok) ==
    IF ~os_ok \/ NamesDirectory(full_path)
    THEN [status |-> "500", path |-> <<>>, written |-> NoFile]
    ELSE [status |-> "200", path |-> clean, written |-> full_path]

SaveCleaned(clean, os_ok) ==
    SaveTo(clean, os_path_join(website_root, clean), os_ok)

\* handle_save_file from the parsed JSON body on; a path that is not a str
\* has no replace(): AttributeError, caught, 500
handle_save_file(data, os_ok) ==
    IF MissingPathOrContent(data)
    THEN [status |-> "400", path |-> <<>>, written |-> NoFile]
    ELSE IF data.path.t # "str"
    THEN [status |-> "500", path |-> <<>>, written |-> NoFile]
    ELSE SaveCleaned(clean_path(data.path.s), os_ok)

\* the characters of the paths of the model and the JSON values of 'path'
PathChars == {".", "/", "a"}
PathValues ==
    {Str(q) : q \in SeqsUpTo(PathChars, MaxPathLen)}
    \cup {None, [t |-> "int", s |-> <<>>]}
SaveRequests == [path : PathValues, content : {None, Str(<<"x">>)}]

(***************************************************************************)
(* Specifications                                                          *)
(***************************************************************************)
IdleAmount == amount = None /\ amount_result = "unset"
IdleFile   == /\ vfile = [exists |-> FALSE, sniffable |-> FALSE,
                          header |-> "address,amount", rows |-> <<>>]
              /\ summary = NoResults
IdleBulk   == /\ file = [exists |-> FALSE, sniffable |-> FALSE,
                         header |-> "address,amount", rows |-> <<>>]
              /\ secret_ok = TRUE /\ batch_size = 50
              /\ delay_between_batches = 1 /\ dry_run = FALSE
              /\ pc = "idle" /\ validation = NoValidation /\ batches = <<>>
              /\ i = 0 /\ batch_results = <<>>
              /\ successful_payments = 0 /\ failed_payments = 0
              /\ submitted = <<>> /\ events = <<>> /\ results = NoResults
IdleReport == now = [year |-> 2024, month |-> 1] /\ report = NoReport
IdleAirdrop == /\ sheet_configured = FALSE /\ sheet = <<>>
               /\ processed_addresses = {} /\ recipients = <<>>
               /\ funded = {} /\ trustlines = {}
               /\ paid = [a \in PayableAddresses |-> 0] /\ cycles = 0
IdleCore   == IdleAmount /\ IdleFile /\ IdleBulk /\ IdleReport
IdleConfig == /\ dotenv = <<>>
              /\ environ = [k \in {STELLAR_NETWORK, ISSUER_SECRET_KEY} |-> "None"]
              /\ last_switch = "none" /\ config = NoConfig
              /\ manager = NoManager /\ op_result = NoOp
IdleCli    == command = NoCommand
IdleTx     == /\ page = <<>> /\ start_time = NoTime /\ end_time = NoTime
              /\ all_transactions = NotCalled
IdleSubmission == /\ submission = [stellarAddress |-> "empty",
                                    account |-> "ok", trustline |-> "found"]
                  /\ handler_result = NoStatus /\ sheets_result = NoStatus
IdleTools  == IdleAirdrop /\ IdleConfig /\ IdleCli /\ IdleTx /\ IdleSubmission
IdleWeb    == save_request = NoRequest /\ save_result = NoResponse
IdleSave   == /\ saved_config = NoConfig /\ written_env = NoEnvFile
              /\ new_config = NoConfig
IdleFund   == /\ fund_amount = <<"0">> /\ fee_rate = <<"0">>
              /\ fee_result = NoResults /\ contribution_result = NoResults
IdleExtra  == IdleWeb /\ IdleSave /\ IdleFund

\* validate_amount on one input
InitAmount ==
    /\ amount \in AmountInputs
    /\ amount_result = "unset"
    /\ IdleFile /\ IdleBulk /\ IdleReport /\ IdleTools /\ IdleExtra

ValidateAmount ==
    /\ amount_result = "unset"
    /\ amount_result' = validate_amount(amount)
    /\ UNCHANGED <<amount, fileVars, bulkVars, reportVars, toolVars, extraVars>>

NextAmount == ValidateAmount

SpecAmount == InitAmount /\ [][NextAmount]_vars

\* validate_bulk_payment_file on one file
InitFile ==
    /\ vfile \in Files
    /\ summary = NoResults
    /\ IdleAmount /\ IdleBulk /\ IdleReport /\ IdleTools /\ IdleExtra

ValidateFile ==
    /\ summary = NoResults
    /\ summary' = validate_bulk_payment_file(vfile)
    /\ UNCHANGED <<vfile, amountVars, bulkVars, reportVars, toolVars, extraVars>>

NextFile == ValidateFile

SpecFile == InitFile /\ [][NextFile]_vars

\* one call of process_bulk_payments
Init ==
    /\ file \in BulkFiles
    /\ secret_ok \in BOOLEAN
    /\ batch_size \in BatchSizes
    /\ delay_between_batches \in Delays
    /\ dry_run \in BOOLEAN
    /\ WithinMaxBatches(file, batch_size)
    /\ pc = "start" /\ validation = NoValidation /\ batches = <<>>
    /\ i = 0 /\ batch_results = <<>>
    /\ successful_payments = 0 /\ failed_payments = 0
    /\ submitted = <<>> /\ events = <<>> /\ results = NoResults
    /\ IdleAmount /\ IdleFile /\ IdleReport /\ IdleTools /\ IdleExtra

Next ==
    \/ Start
    \/ \E sdk \in SdkOutcomes : ExecuteBatch(sdk)
    \/ Sleep
    \/ Finish
    \/ \E report_arg \in BOOLEAN : BulkCommand(report_arg)

Spec == Init /\ [][Next]_vars

\* the reporter
InitReport ==
    /\ now \in [year : NowYears, month : 1..12]
    /\ report = NoReport
    /\ IdleAmount /\ IdleFile /\ IdleBulk /\ IdleTools /\ IdleExtra

\* 'report monthly --year y --month m'
MonthlyReport(y, m, io_ok) ==
    /\ report' = Called("monthly", generate_monthly_report(y, m, io_ok))
    /\ UNCHANGED <<now, amountVars, fileVars, bulkVars, toolVars, extraVars>>

\* generate_current_month_report
CurrentMonthReport(io_ok) ==
    /\ report' = Called("current",
                         generate_monthly_report(now.year, now.month, io_ok))
    /\ UNCHANGED <<now, amountVars, fileVars, bulkVars, toolVars, extraVars>>

\* generate_previous_month_report, and 'report previous'
PreviousMonthReport(io_ok) ==
    /\ report' = Called("previous",
                         generate_monthly_report(previous_month(now)[1],
                                                 previous_month(now)[2], io_ok))
    /\ UNCHANGED <<now, amountVars, fileVars, bulkVars, toolVars, extraVars>>

NextReport ==
    \/ \E y \in ReportYears, m \in ReportMonths, io_ok \in BOOLEAN :
           MonthlyReport(y, m, io_ok)
    \/ \E io_ok \in BOOLEAN : CurrentMonthReport(io_ok)
    \/ \E io_ok \in BOOLEAN : PreviousMonthReport(io_ok)

SpecReport == InitReport /\ [][NextReport]_vars

\* the airdrop monitor run again and again while people submit the form,
\* fund their accounts and establish trustlines
InitAirdrop ==
    /\ sheet_configured \in BOOLEAN
    /\ sheet = <<>> /\ processed_addresses = {} /\ recipients = <<>>
    /\ funded = {} /\ trustlines = {}
    /\ paid = [a \in PayableAddresses |-> 0] /\ cycles = 0
    /\ IdleCore /\ IdleExtra /\ IdleConfig /\ IdleCli /\ IdleTx /\ IdleSubmission

\* a form submission becomes a row of the sheet
Submit(row) ==
    /\ Len(sheet) < MaxSheet
    /\ sheet' = Append(sheet, row)
    /\ UNCHANGED <<sheet_configured, processed_addresses, recipients, funded,
                   trustlines, paid, cycles, coreVars, extraVars, configVars,
                   command, txVars,
                   submissionVars>>

FundAccount(a) ==
    /\ a \notin funded
    /\ funded' = funded \cup {a}
    /\ UNCHANGED <<sheet_configured, sheet, processed_addresses, recipients,
                   trustlines, paid, cycles, coreVars, extraVars, configVars,
                   command, txVars,
                   submissionVars>>

EstablishTrustline(a) ==
    /\ a \in funded /\ a \notin trustlines
    /\ trustlines' = trustlines \cup {a}
    /\ UNCHANGED <<sheet_configured, sheet, processed_addresses, recipients,
                   funded, paid, cycles, coreVars, extraVars, configVars,
                   command, txVars,
                   submissionVars>>

\* main() after process_new_submissions left the files as in st:
\* run_airdrop when a submission was approved in this cycle
Distribute(st, failing) ==
    /\ processed_addresses' = st.processed
    /\ recipients' = st.recipients
    /\ paid' = IF st.approved > 0 /\ st.recipients # <<>>
               THEN send_airdrop(st.recipients, funded, trustlines, failing, paid)
               ELSE paid

\* airdrop_monitor.main(): one monitor cycle.  download_ok: the sheet could
\* be downloaded; failing: the recipients whose payment fails on the network
MonitorCycle(download_ok, failing) ==
    /\ cycles < MaxCycles
    /\ cycles' = cycles + 1
    /\ IF sheet_configured /\ download_ok
       THEN Distribute(process_google_sheet_submissions(sheet,
                           [processed  |-> processed_addresses,
                            recipients |-> recipients,
                            approved   |-> 0], funded, trustlines), failing)
       ELSE UNCHANGED <<processed_addresses, recipients, paid>>
    /\ UNCHANGED <<sheet_configured, sheet, funded, trustlines, coreVars, extraVars,
                   configVars, command, txVars, submissionVars>>

NextAirdrop ==
    \/ \E row \in SheetRows : Submit(row)
    \/ \E a \in PayableAddresses : FundAccount(a)
    \/ \E a \in PayableAddresses : EstablishTrustline(a)
    \/ \E download_ok \in BOOLEAN, failing \in SUBSET PayableAddresses :
           MonitorCycle(download_ok, failing)

SpecAirdrop == InitAirdrop /\ [][NextAirdrop]_vars

\* the network switch, a new process constructing Config, and a
\* StellarManager built from it
InitConfig ==
    /\ dotenv \in EnvFiles
    /\ environ \in Environs
    /\ last_switch = "none" /\ config = NoConfig
    /\ manager = NoManager /\ op_result = NoOp
    /\ IdleCore /\ IdleExtra /\ IdleAirdrop /\ IdleCli /\ IdleTx /\ IdleSubmission

SwitchToMainnet ==
    /\ dotenv' = switch_to(dotenv, "mainnet")
    /\ last_switch' = "mainnet"
    /\ config' = NoConfig /\ manager' = NoManager /\ op_result' = NoOp
    /\ UNCHANGED <<environ, coreVars, extraVars, airdropVars, command, txVars,
                   submissionVars>>

SwitchToTestnet ==
    /\ dotenv' = switch_to(dotenv, "testnet")
    /\ last_switch' = "testnet"
    /\ config' = NoConfig /\ manager' = NoManager /\ op_result' = NoOp
    /\ UNCHANGED <<environ, coreVars, extraVars, airdropVars, command, txVars,
                   submissionVars>>

\* Config() in a new process
NewConfig ==
    /\ config = NoConfig
    /\ config' = load_config(environ, dotenv)
    /\ UNCHANGED <<dotenv, environ, last_switch, manager, op_result,
                   coreVars, extraVars, airdropVars, command, txVars,
                   submissionVars>>

\* config.set('issuer_secret', ...) of the interactive setup
SetIssuerSecret(secret) ==
    /\ config # NoConfig /\ manager = NoManager
    /\ "ISSUER_SECRET" \notin DOMAIN config
    /\ config' = ConfigSet(config, "issuer_secret", secret)
    /\ UNCHANGED <<dotenv, environ, last_switch, manager, op_result,
                   coreVars, extraVars, airdropVars, command, txVars,
                   submissionVars>>

\* StellarManager(config)
NewStellarManager ==
    /\ config # NoConfig /\ manager = NoManager
    /\ manager' = StellarManager(config)
    /\ UNCHANGED <<dotenv, environ, last_switch, config, op_result,
                   coreVars, extraVars, airdropVars, command, txVars,
                   submissionVars>>

CallManager(op, inputs_ok, sdk_ok) ==
    /\ manager # NoManager /\ ~manager.raised
    /\ op_result' = [op |-> op, inputs_ok |-> inputs_ok,
                      result |-> ManagerOp(manager, op, inputs_ok, sdk_ok)]
    /\ UNCHANGED <<dotenv, environ, last_switch, config, manager,
                   coreVars, extraVars, airdropVars, command, txVars,
                   submissionVars>>

NextConfig ==
    \/ SwitchToMainnet
    \/ SwitchToTestnet
    \/ NewConfig
    \/ \E secret \in ValidSecrets : SetIssuerSecret(secret)
    \/ NewStellarManager
    \/ \E op \in ManagerOps, inputs_ok \in BOOLEAN, sdk_ok \in BOOLEAN :
           CallManager(op, inputs_ok, sdk_ok)

SpecConfig == InitConfig /\ [][NextConfig]_vars

\* one call of get_account_transactions
InitTx ==
    /\ page \in Pages
    /\ start_time \in TimeArgs /\ end_time \in TimeArgs
    /\ all_transactions = NotCalled
    /\ IdleCore /\ IdleExtra /\ IdleAirdrop /\ IdleConfig /\ IdleCli /\ IdleSubmission

GetAccountTransactions(fetch_ok) ==
    /\ all_transactions = NotCalled
    /\ all_transactions' =
           [called |-> TRUE, fetched |-> fetch_ok,
            records |-> get_account_transactions(page, start_time, end_time,
                                                 fetch_ok)]
    /\ UNCHANGED <<page, start_time, end_time, coreVars, extraVars, airdropVars,
                   configVars, command, submissionVars>>

NextTx == \E fetch_ok \in BOOLEAN : GetAccountTransactions(fetch_ok)

SpecTx == InitTx /\ [][NextTx]_vars

\* one submission given to both handlers
InitSubmission ==
    /\ submission \in [stellarAddress : SubmittedAddresses,
                        account : AccountOutcomes,
                        trustline : TrustlineOutcomes]
    /\ handler_result = NoStatus /\ sheets_result = NoStatus
    /\ IdleCore /\ IdleExtra /\ IdleAirdrop /\ IdleConfig /\ IdleCli /\ IdleTx

ProcessAirdropSubmission ==
    /\ handler_result = NoStatus
    /\ handler_result' =
           Returning(process_airdrop_submission(submission.stellarAddress,
                         submission.account, submission.trustline))
    /\ UNCHANGED <<submission, sheets_result, coreVars, extraVars, airdropVars,
                   configVars, command, txVars>>

ProcessSubmission ==
    /\ sheets_result = NoStatus
    /\ sheets_result' =
           Returning(process_submission(submission.stellarAddress,
                         submission.account, submission.trustline))
    /\ UNCHANGED <<submission, handler_result, coreVars, extraVars, airdropVars,
                   configVars, command, txVars>>

NextSubmission == ProcessAirdropSubmission \/ ProcessSubmission

SpecSubmission == InitSubmission /\ [][NextSubmission]_vars

\* one POST /api/save-file request
InitWeb ==
    /\ save_request \in SaveRequests
    /\ save_result = NoResponse
    /\ IdleCore /\ IdleTools /\ IdleSave /\ IdleFund

HandleSaveFile(os_ok) ==
    /\ save_result = NoResponse
    /\ save_result' = handle_save_file(save_request, os_ok)
    /\ UNCHANGED <<save_request, coreVars, toolVars, saveVars, fundVars>>

NextWeb == \E os_ok \in BOOLEAN : HandleSaveFile(os_ok)

SpecWeb == InitWeb /\ [][NextWeb]_vars

\* Config.save, directly or at the end of the interactive setup, and a new
\* process that constructs Config from the .env that was written
InitSave ==
    /\ saved_config \in StartConfigs
    /\ written_env = NoEnvFile
    /\ new_config = NoConfig
    /\ IdleCore /\ IdleTools /\ IdleWeb /\ IdleFund

Save ==
    /\ ~written_env.written
    /\ written_env' = [written |-> TRUE, lines |-> save(saved_config)]
    /\ UNCHANGED <<saved_config, new_config, coreVars, toolVars, webVars,
                   fundVars>>

SetupConfigCommand(in) ==
    /\ ~written_env.written
    /\ saved_config' = setup_config_command(saved_config, in)
    /\ written_env' = [written |-> TRUE, lines |-> save(saved_config')]
    /\ UNCHANGED <<new_config, coreVars, toolVars, webVars, fundVars>>

NewConfigFromEnv ==
    /\ written_env.written /\ new_config = NoConfig
    /\ new_config' = Config(written_env.lines)
    /\ UNCHANGED <<saved_config, written_env, coreVars, toolVars, webVars,
                   fundVars>>

NextSave ==
    \/ Save
    \/ \E in \in SetupInputs : SetupConfigCommand(in)
    \/ NewConfigFromEnv

SpecSave == InitSave /\ [][NextSave]_vars

\* one amount and one fee rate given to both calculations
InitFund ==
    /\ fund_amount \in FundAmounts
    /\ fee_rate \in FeeRates
    /\ fee_result = NoResults /\ contribution_result = NoResults
    /\ IdleCore /\ IdleTools /\ IdleWeb /\ IdleSave

CalculateTransactionWithFundFee ==
    /\ fee_result = NoResults
    /\ fee_result' = calculate_transaction_with_fund_fee(fund_amount, fee_rate)
    /\ UNCHANGED <<fund_amount, fee_rate, contribution_result, coreVars,
                   toolVars, webVars, saveVars>>

CalculateFundContribution ==
    /\ contribution_result = NoResults
    /\ contribution_result' = calculate_fund_contribution(fund_amount)
    /\ UNCHANGED <<fund_amount, fee_rate, fee_result, coreVars, toolVars,
                   webVars, saveVars>>

NextFund == CalculateTransactionWithFundFee \/ CalculateFundContribution

SpecFund == InitFund /\ [][NextFund]_vars

(***************************************************************************)
(* Properties                                                              *)
(***************************************************************************)
Returned == pc = "done"
ReturnedError == pc = "done" /\ "error" \in DOMAIN results
ReturnedResults == pc = "done" /\ "error" \notin DOMAIN results

EventsOf(e) == SelectSeq(events, LAMBDA x : x.ev = e)

Elems(q) == {q[k] : k \in 1..Len(q)}

RECURSIVE Flatten(_)
Flatten(qs) == IF qs = <<>> THEN <<>> ELSE Head(qs) \o Flatten(Tail(qs))

\* C1: in one process_bulk_payments call the batches are executed one after
\* the other, each exactly once (all of them when results are returned), at
\* most one transaction is submitted per batch, and no payment record is in
\* two submitted transactions.
C1_OneExecutionPerBatch ==
    LET recs == EventsOf("record")
        subs == EventsOf("submit")
    IN  /\ Len(recs) <= Len(batches)
        /\ \A k \in 1..Len(recs) : recs[k].batch = k
        /\ ReturnedResults => Len(recs) = Len(batches)
        /\ Len(subs) = Len(submitted)
        /\ \A a, b \in 1..Len(submitted) :
              a # b => /\ submitted[a].batch # submitted[b].batch
                       /\ Elems(submitted[a].payments)
                             \cap Elems(submitted[b].payments) = {}
        /\ \A a \in 1..Len(submitted) :
              submitted[a].payments = batches[submitted[a].batch]

C1_Witness ==
    /\ ReturnedResults
    /\ Len(batches) >= 3
    /\ Len(submitted) >= 2

\* C2: no batch returned by prepare_payment_batches, and no submitted
\* transaction, has more than 100 payments, whatever batch_size was passed.
C2_BatchAtMost100 ==
    /\ \A j \in 1..Len(batches) : Len(batches[j]) <= 100
    /\ \A a \in 1..Len(submitted) : Len(submitted[a].payments) <= 100

C2_Witness ==
    /\ batch_size > 100
    /\ validation.raised = "none"
    /\ Len(validation.valid_records) > 100
    /\ \E a \in 1..Len(submitted) : Len(submitted[a].payments) = 100

\* C3: for batch_size >= 1 the batches are a partition of the payments given
\* to prepare_payment_batches: in order they concatenate to that list, none
\* is empty, and all but the last have min(batch_size, 100) payments.
C3_BatchesPartition ==
    (pc \in {"loop", "sleep", "done"} /\ validation.raised = "none"
        /\ batch_size >= 1)
    => /\ Flatten(batches) = validation.valid_records
       /\ \A j \in 1..Len(batches) : batches[j] # <<>>
       /\ \A j \in 1..(Len(batches) - 1) :
             Len(batches[j]) = IF batch_size < 100 THEN batch_size ELSE 100

C3_Witness ==
    /\ pc = "loop"
    /\ batch_size >= 1
    /\ Len(batches) >= 2
    /\ Len(batches[Len(batches)]) < Len(batches[1])

\* a line that validate_csv_row rejects, as the reader yields it or cleaned
FailsValidation(h, r) ==
    \/ RawRowValidation[h][r].raised # "none"
    \/ ~RawRowValidation[h][r].valid
    \/ /\ CleanedRowValidation[h][r].raised = "none"
       /\ ~CleanedRowValidation[h][r].valid

HasFailingRow(f) ==
    \E n \in 1..Len(DataRows(f)) : FailsValidation(f.header, DataRows(f)[n])

\* C4: without dry_run, a file with a row that fails validation makes
\* process_bulk_payments build and submit nothing and return
\* successful = False with an error.
C4_InvalidRowAborts ==
    (~dry_run /\ HasFailingRow(file))
    => /\ pc \in {"start", "done"}
       /\ batches = <<>> /\ events = <<>> /\ submitted = <<>>
       /\ Returned => ("error" \in DOMAIN results /\ results.successful = FALSE)

C4_Witness ==
    /\ ~dry_run /\ HasFailingRow(file)
    /\ \E n \in 1..Len(DataRows(file)) :
          ~FailsValidation(file.header, DataRows(file)[n])
    /\ ReturnedError
    /\ results.error = "ValueError: Cannot process file with invalid payments"

\* C5: with dry_run no transaction is ever submitted.
C5_DryRunNeverSubmits ==
    dry_run => (submitted = <<>> /\ EventsOf("submit") = <<>>)

C5_Witness ==
    /\ dry_run
    /\ ReturnedResults
    /\ Len(batches) >= 2
    /\ results.successful_batches = Len(batches)
    /\ Len(EventsOf("build")) = Len(batches)

SleepPositions == {p \in 1..Len(events) : events[p].ev = "sleep"}

\* C6: with a positive delay and N >= 1 batches, each pause comes right
\* after the result of a batch i < N is recorded and before anything of batch
\* i + 1, there is one pause per such batch and, when the results are
\* returned, N - 1 pauses in all.
C6_PausesBetweenBatches ==
    (delay_between_batches > 0 /\ Len(batches) >= 1)
    => /\ \A p \in SleepPositions :
             /\ p > 1
             /\ events[p - 1] = Event("record", events[p].batch)
             /\ events[p].batch < Len(batches)
             /\ p < Len(events) =>
                   /\ events[p + 1].batch = events[p].batch + 1
                   /\ events[p + 1].ev \in {"build", "record"}
       /\ \A p, q \in SleepPositions :
             p # q => events[p].batch # events[q].batch
       /\ ReturnedResults => Cardinality(SleepPositions) = Len(batches) - 1

C6_Witness ==
    /\ ReturnedResults
    /\ delay_between_batches > 0
    /\ Len(batches) >= 3
    /\ Cardinality(SleepPositions) = Len(batches) - 1

\* what C7 takes for a valid amount: a decimal string with
\* 0 < v <= 922337203685.4775807 and at most 7 digits after the point
ClaimedValidAmount(a) ==
    /\ a.t = "str"
    /\ Decimal(a.s).kind = "finite"
    /\ Decimal(a.s).sign = 0
    /\ ~IsZero(Decimal(a.s))
    /\ Decimal(a.s).exp >= -7
    /\ ~GreaterPos(Decimal(a.s).digits, Decimal(a.s).exp,
                   MaxAmountDigits, MaxAmountExp)

\* C7: validate_amount returns True exactly for the valid amounts and False,
\* without raising, for every other input.
C7_ValidateAmountTotal ==
    amount_result # "unset"
    => amount_result = IF ClaimedValidAmount(amount) THEN "True" ELSE "False"

\* C8: the summary of validate_bulk_payment_file has
\* total_rows = valid_rows + invalid_rows, one row_errors entry per invalid
\* row, valid exactly when errors is empty, and valid only with the required
\* columns, at least one row and no invalid row.
C8_SummaryConsistent ==
    summary # NoResults
    => /\ summary.total_rows = summary.valid_rows + summary.invalid_rows
       /\ Len(summary.row_errors) = summary.invalid_rows
       /\ summary.valid <=> summary.errors = <<>>
       /\ summary.valid => /\ MissingColumns(vfile) = <<>>
                           /\ summary.total_rows >= 1
                           /\ summary.invalid_rows = 0

FirstOfMonth(y, m) == [year |-> y, month |-> m, day |-> 1, hour |-> 0]

FollowingMonth(y, m) ==
    IF m = 12 THEN FirstOfMonth(y + 1, 1) ELSE FirstOfMonth(y, m + 1)

CoversMonth(r, y, m) ==
    /\ r.analysed
    /\ r.year = y /\ r.month = m
    /\ r.start_time = FirstOfMonth(y, m)
    /\ r.end_time = FollowingMonth(y, m)

\* C9 as stated: for every year and month in 1..12 the report analyses the
\* month, and the previous-month report of a January covers the December
\* before.
C9_EveryYear ==
    report # NoReport
    => /\ report.result.month \in 1..12
          => CoversMonth(report.result, report.result.year, report.result.month)
       /\ (report.call = "previous" /\ now.month = 1)
          => CoversMonth(report.result, now.year - 1, 12)

\* C9, amended: for every year in 1..9999 and month in 1..12 other than
\* December 9999 the report analyses the period from 00:00 UTC on the first
\* of the month to 00:00 UTC on the first of the following month, and the
\* previous-month report of a January covers the December before.
C9_MonthPeriod ==
    report # NoReport
    => /\ ( /\ report.result.month \in 1..12
            /\ report.result.year \in 1..9999
            /\ ~(report.result.year = 9999 /\ report.result.month = 12) )
          => CoversMonth(report.result, report.result.year, report.result.month)
       /\ (report.call = "previous" /\ now.month = 1)
          => CoversMonth(report.result, now.year - 1, 12)

C9_Witness ==
    /\ report # NoReport
    /\ report.call = "previous"
    /\ now.month = 1
    /\ report.result.end_time = FirstOfMonth(now.year, 1)

\* C10: a result without an 'error' key has
\* successful_payments + failed_payments = valid_payments,
\* successful_batches + failed_batches = total_batches, and successful
\* exactly when failed_payments = 0, for every batch_size.
C10_ResultsAddUp ==
    ReturnedResults
    => /\ results.successful_payments + results.failed_payments
             = results.valid_payments
       /\ results.successful_batches + results.failed_batches
             = results.total_batches
       /\ results.successful <=> results.failed_payments = 0

\* the payments of the recorded batches whose result has successful = ok
PaymentsOfBatches(ok) ==
    Flatten([k \in 1..Len(batch_results) |->
                IF batch_results[k].successful = ok THEN batches[k] ELSE <<>>])

\* C11: a failed batch does not stop the loop: the batches are recorded in
\* order whatever their results were, a run that had a failed batch still
\* returns results with every batch recorded, the payments of the failed
\* batches are what failed_payments counts and none of them is counted in
\* successful_payments.
C11_FailedBatchContinues ==
    /\ pc \in {"loop", "sleep", "done"} => Len(batch_results) <= Len(batches)
    /\ pc = "loop" => Len(batch_results) = i
    /\ pc = "sleep" => Len(batch_results) = i + 1 /\ i + 1 < Len(batches)
    /\ \A k \in 1..Len(EventsOf("record")) : EventsOf("record")[k].batch = k
    /\ Len(EventsOf("record")) = Len(batch_results)
    /\ (pc = "done" /\ batch_results # <<>>)
          => ReturnedResults /\ Len(batch_results) = Len(batches)
    /\ failed_payments = Len(PaymentsOfBatches(FALSE))
    /\ successful_payments = Len(PaymentsOfBatches(TRUE))

C11_Witness ==
    /\ ReturnedResults
    /\ Len(batch_results) >= 3
    /\ ~batch_results[1].successful
    /\ batch_results[2].successful
    /\ ~batch_results[3].successful
    /\ failed_payments > 0 /\ successful_payments > 0

\* C12: whatever the monitor cycles, submissions and ledger changes were, no
\* address has been sent more than one successful airdrop payment.
C12_PaidAtMostOnce == \A a \in PayableAddresses : paid[a] <= 1

\* C13: a Config constructed after switch_to_mainnet targets the public
\* network (its passphrase and https://horizon.stellar.org), one constructed
\* after switch_to_testnet targets the testnet.
C13_SwitchTargetsNetwork ==
    config # NoConfig =>
        /\ last_switch = "mainnet" =>
              /\ config.NETWORK_PASSPHRASE = PUBLIC_NETWORK_PASSPHRASE
              /\ config.HORIZON_URL = "https://horizon.stellar.org"
        /\ last_switch = "testnet" =>
              /\ config.NETWORK_PASSPHRASE = TESTNET_NETWORK_PASSPHRASE
              /\ config.HORIZON_URL = "https://horizon-testnet.stellar.org"

\* C14: a StellarManager built from a Config that loaded a non-empty
\* ISSUER_SECRET_KEY has issuer_keypair and ogc_asset, and its operations do
\* not return the 'OGC asset not configured' error.
C14_IssuerConfigured ==
    (config # NoConfig /\ manager # NoManager
        /\ config.ISSUER_SECRET_KEY \in ValidSecrets)
    => /\ ~manager.raised
       /\ manager.issuer_keypair # "None" /\ manager.ogc_asset # "None"
       /\ op_result # NoOp => op_result.result.error # NotConfigured

\* C15: a file that validate_bulk_payment_file reports as valid is loaded by
\* load_csv_file without raising, and validate_payments finds no invalid
\* payment among the loaded records.
C15_ValidatorLoaderAgree ==
    (summary # NoResults /\ summary.valid) =>
        /\ load_csv_file(vfile).raised = "none"
        /\ validate_payments(vfile, load_csv_file(vfile).payments).raised = "none"
        /\ validate_payments(vfile, load_csv_file(vfile).payments).invalid_payments = 0

\* the row numbers of the lines of f that validate_csv_row accepts (ok) or
\* rejects (~ok) as csv.DictReader yields them
RowsWith(f, ok) ==
    SelectSeq([n \in 1..Len(DataRows(f)) |-> n + 1],
              LAMBDA rn : LET v == RawRowValidation[f.header][DataRows(f)[rn - 1]]
                          IN  v.raised = "none" /\ v.valid = ok)

\* C16: a dry run on a readable CSV with both valid and invalid rows (with a
\* usable secret and a positive batch size) does not abort: it returns
\* results with invalid_payments > 0 whose batches are the valid rows.
C16_DryRunSkipsInvalid ==
    (/\ Returned /\ dry_run /\ secret_ok /\ batch_size > 0
     /\ file.exists /\ file.sniffable
     /\ RowsWith(file, TRUE) # <<>> /\ RowsWith(file, FALSE) # <<>>
     /\ Len(RowsWith(file, TRUE)) + Len(RowsWith(file, FALSE)) = Len(DataRows(file)))
    => /\ ReturnedResults
       /\ results.invalid_payments > 0
       /\ Flatten(batches) = RowsWith(file, TRUE)
       /\ Len(results.batch_results) = Len(batches)

\* C17: process_bulk_payments always returns: a failure while loading or
\* validating the file, creating the keypair or preparing the batches gives
\* a dict with successful = False, an error and a duration, and no batch is
\* built, submitted or recorded in that call.
C17_ErrorsAreReturned ==
    /\ pc \in {"idle", "start", "loop", "sleep", "done"}
    /\ pc = "done" => results # NoResults
    /\ (pc \notin {"idle", "start"}
          /\ (~file.exists \/ ~file.sniffable \/ ~secret_ok \/ batch_size = 0))
       => ReturnedError
    /\ ReturnedError =>
          /\ results.successful = FALSE
          /\ "duration" \in DOMAIN results
          /\ events = <<>> /\ batch_results = <<>> /\ submitted = <<>>

C17_Witness ==
    /\ ReturnedError
    /\ results.error = "ValueError: range() arg 3 must not be zero"
    /\ file.exists /\ secret_ok /\ batch_size = 0

\* C18: with --report, bulk_command prints the outcome and writes the
\* report for every result of process_bulk_payments: a successful run, a run
\* with a failed batch and an error result.
C18_ReportForEveryResult ==
    (command # NoCommand /\ command.report_arg)
    => /\ command.raised = "none"
       /\ command.printed # "none"
       /\ command.report

\* start_time <= created_at <= end_time, a bound that is None not counting
InRange(tx, start, endt) ==
    /\ (start = NoTime \/ tx.created_at >= start)
    /\ (endt = NoTime \/ tx.created_at <= endt)

\* C19: when the page was fetched, get_account_transactions returns exactly
\* its records with start_time <= created_at <= end_time, in the fetched
\* order.
C19_ExactlyTheRange ==
    (all_transactions # NotCalled /\ all_transactions.fetched)
    => all_transactions.records =
          SelectSeq(page, LAMBDA tx : InRange(tx, start_time, end_time))

\* the address of the submission passes the format check
FormatPasses == submission.stellarAddress \in {"GA", "GB", " GA "}

\* the status the checks of the submission call for, and the checks needed
\* to decide it
DecidedStatus ==
    IF ~FormatPasses THEN "rejected"
    ELSE IF submission.account # "ok" THEN "pending_funding"
    ELSE IF submission.trustline # "found" THEN "pending_trustline"
    ELSE "approved"

ChecksNeeded ==
    CASE DecidedStatus = "rejected" -> <<"address_format">>
      [] DecidedStatus = "pending_funding" -> <<"address_format", "account_exists">>
      [] OTHER -> <<"address_format", "account_exists", "ogc_trustline">>

\* C20: the status process_airdrop_submission returns is the one of the first
\* failing check in the order address format, account, trustline, approved
\* when none fails and never 'pending'; no check after the failing one is
\* made; process_submission returns the same status.
C20_FirstFailingCheckDecides ==
    /\ handler_result.returned =>
          /\ handler_result.status = DecidedStatus
          /\ handler_result.validations = ChecksNeeded
          /\ handler_result.status # "pending"
    /\ sheets_result.returned =>
          /\ sheets_result.status = DecidedStatus
          /\ sheets_result.validations = ChecksNeeded
    /\ (handler_result # NoStatus /\ sheets_result # NoStatus)
          => sheets_result.status = handler_result.status

C20_Witness ==
    /\ handler_result.returned /\ sheets_result.returned
    /\ handler_result.status = "pending_funding"
    /\ submission.trustline = "found"
    /\ sheets_result.status = "pending_funding"

\* the file lies inside website_root
InsideRoot(p) ==
    /\ IsPrefix(realpath(website_root), realpath(p))
    /\ realpath(p) # realpath(website_root)

HasParentRef(s) == \E k \in 1..(Len(s) - 2) : SubSeq(s, k, k + 2) = ParentRef

\* C21: for every path sent to POST /api/save-file, the file that
\* handle_save_file wrote lies inside website_root, and the cleaned path
\* contains no '../' and does not start with '/'.
C21_SavedInsideRoot ==
    save_result.status = "200" =>
        /\ InsideRoot(save_result.written)
        /\ ~HasParentRef(save_result.path)
        /\ ~startswith_slash(save_result.path)

\* the settings the claim names, as attributes of a Config
SavedSettings ==
    {STELLAR_NETWORK, ISSUER_PUBLIC_KEY, ISSUER_SECRET_KEY, TOKEN_CODE,
     TOTAL_SUPPLY}

\* what the interactive setup stored under the name it used, if it did
Entered(c, key, attribute) == ConfigGet(c, key, c[attribute])

\* C22: a new Config constructed from the .env that Config.save wrote has
\* the network, issuer public key, issuer secret key, token code and total
\* supply of the Config that was saved, and the values that were entered in
\* the interactive setup.
C22_SaveRestoresSettings ==
    new_config # NoConfig =>
        /\ ~new_config.raised
        /\ \A a \in SavedSettings : new_config[a] = saved_config[a]
        /\ new_config[STELLAR_NETWORK]
               = Entered(saved_config, "network", STELLAR_NETWORK)
        /\ new_config[ISSUER_PUBLIC_KEY]
               = Entered(saved_config, "issuer_address", ISSUER_PUBLIC_KEY)
        /\ new_config[ISSUER_SECRET_KEY]
               = Entered(saved_config, "issuer_secret", ISSUER_SECRET_KEY)

\* two finite decimals are one number: equal coefficients at the smaller
\* exponent, and equal signs unless both are zero
SameNumber(x, y) ==
    /\ subtract_exact(x, y).digits = <<0>>
    /\ (x.sign = y.sign \/ x.digits = <<0>>)

FiniteInputs ==
    Decimal(fund_amount).kind = "finite" /\ Decimal(fee_rate).kind = "finite"

\* C23: for a decimal amount a and fee rate r the fund fee returned is a * r
\* and the recipient amount is a - fee, so that fee and recipient amount add
\* up to exactly the amount; calculate_fund_contribution returns the same
\* for r = 0.001.
C23_FeeAndRecipientAddUp ==
    /\ (fee_result # NoResults /\ FiniteInputs) =>
          /\ "error" \notin DOMAIN fee_result
          /\ SameNumber(fee_result.fund_fee,
                        multiply_exact(Decimal(fund_amount), Decimal(fee_rate)))
          /\ SameNumber(fee_result.recipient_amount,
                        subtract_exact(Decimal(fund_amount),
                                       fee_result.fund_fee))
    /\ (contribution_result # NoResults
            /\ Decimal(fund_amount).kind = "finite") =>
          /\ ~contribution_result.raised
          /\ SameNumber(contribution_result.fund_amount,
                        multiply_exact(Decimal(fund_amount),
                                       Decimal(TRANSACTION_FEE_RATE)))
          /\ SameNumber(contribution_result.remaining_amount,
                        subtract_exact(Decimal(fund_amount),
                                       contribution_result.fund_amount))

====
